---------------------------- MODULE Spec2Model ----------------------------
(***************************************************************************)
(* Model of the KubeMOOC-Ops preview-environment functions:                *)
(*   - deprovisioning-function/deprovisioning_service.py                   *)
(*   - deployment-function/services/deployment_service.py                  *)
(* Names (branch, namespace, database) are sequences of one-character      *)
(* strings so that prefixing and character replacement are computed.       *)
(* Every remote call is one step; its outcome is drawn from the answers    *)
(* the remote service can give.                                            *)
(***************************************************************************)
EXTENDS Integers, Sequences, FiniteSets, TLC

VARIABLES
    \* ---- request
    entry,            \* which function the caller invoked
    branch_name,      \* argument of deprovision_environment / deploy
    namespace_name,   \* argument of delete_namespace
    \* ---- remote world (cluster, identity service, PostgreSQL server)
    nsExists,         \* the target namespace exists in the cluster
    cronjobs,         \* spec.suspend of each CronJob of the namespace
    credExists,       \* [database_credential, keyvault_credential -> BOOLEAN]
    dbExists,         \* the sanitized database exists on the server
    \* ---- settings
    adminPassword,    \* settings.postgres_admin_password is set
    \* ---- locals of the running step
    pc,               \* position in the code
    calls,            \* calls issued so far in this run, in order, with their answers
    steps,            \* step functions entered so far in this run, in order
    kubeconfigFile,   \* the temporary kubeconfig file exists on disk
    connOpen,         \* the psycopg2 connection is open
    cronIdx,          \* loop index of suspend_cronjobs_in_namespace
    suspended_count,  \* local of suspend_cronjobs_in_namespace
    credLocal,        \* results/errors locals of delete_federated_credentials
    \* ---- return values of the three step functions
    nsRet, credRet, dbRet,
    \* ---- locals of deprovision_environment
    operations, timing, errors, result,
    \* ---- history
    initial,          \* the remote world when the current run started
    run,              \* number of the current run of the workflow
    prevStatus,       \* status returned by the previous run (None: no previous run)
    \* ---- deployment workflow (deployment_service.py)
    commit_sha,         \* argument of deploy, with branch_name
    y_pc,               \* position in deploy
    y_calls,            \* calls issued by deploy, in order, with their answers
    tempKubeconfigs,    \* temporary kubeconfig files now on disk
    k8s_client,         \* self._k8s_client is configured
    kustomization,      \* the feature overlay's kustomization.yaml
    rolloutIdx,         \* loop index of _wait_for_rollouts
    deployed_resources, \* local of deploy
    health_checks,      \* local of _perform_health_checks
    response,           \* the DeploymentResponse returned by deploy
    \* ---- provisioning workflow (provisioning-function)
    request,            \* what the HTTP request carries: no body, an invalid or a valid one
    settings_ok,        \* the settings object has the managed_identity_* attributes
    p_dbExists,         \* the sanitized database exists on the server
    p_credExists,       \* the federated credential cred-{branch} exists
    p_nsExists,         \* the namespace named after the branch exists
    oidc_issuer,        \* the cluster has an OIDC issuer URL
    p_pc,               \* position in the handler / provision_environment
    p_calls,            \* calls issued by the provisioning run, in order
    p_conn,             \* the psycopg2 connection of create_database is open
    p_kubeconfigFile,   \* the temporary kubeconfig of create_namespace exists on disk
    database_created,   \* locals of provision_environment (FALSE: not assigned yet)
    credential_created,
    namespace_created,
    p_result,           \* the dictionary returned by provision_environment
    http_response,      \* the HTTP response of the provisioning handler
    p_initial,          \* the remote world when the current provisioning run started
    p_run,              \* number of the current provisioning run
    p_prevStatus,       \* status returned by the previous provisioning run
    \* ---- HTTP handlers of the deployment and the deprovisioning function
    y_request,          \* what the body of POST /deploy holds
    y_http,             \* the HTTP response of deploy_function
    d_request,          \* what the body of POST /deprovision holds
    d_http,             \* the HTTP response of the deprovisioning handler
    \* ---- one call of a pure function (request models, URL, parsing, rewriting)
    fn,                 \* the function called
    arg,                \* its argument
    ret,                \* what it returned or raised
    \* ---- two requests served by one worker process
    c_pc,               \* position of each request in delete_namespace
    c_kubeconfig,       \* the temporary kubeconfig file of each request
    default_configuration, \* kubernetes.client.Configuration's process-wide default
    c_client,           \* the configuration each request's API client was built from
    \* ---- workflows of one branch against the same remote systems
    w_pc,               \* position of each workflow
    w_world,            \* the databases, federated credentials and namespaces that exist
    w_local,            \* the locals of each workflow
    w_result            \* what each workflow returned

dvars == <<entry, branch_name, namespace_name, nsExists, cronjobs, credExists,
           dbExists, adminPassword, pc, calls, kubeconfigFile, connOpen,
           cronIdx, suspended_count, credLocal, nsRet, credRet, dbRet,
           operations, timing, errors, result, steps, initial, run, prevStatus>>

yvars == <<commit_sha, y_pc, y_calls, tempKubeconfigs, k8s_client, kustomization,
           rolloutIdx, deployed_resources, health_checks, response>>

pvars == <<request, settings_ok, p_dbExists, p_credExists, p_nsExists, oidc_issuer,
           p_pc, p_calls, p_conn, p_kubeconfigFile, database_created,
           credential_created, namespace_created, p_result, http_response,
           p_initial, p_run, p_prevStatus>>

hvars == <<y_request, y_http, d_request, d_http>>

fvars == <<fn, arg, ret>>

cvars == <<c_pc, c_kubeconfig, default_configuration, c_client>>

wvars == <<w_pc, w_world, w_local, w_result>>

xvars == <<hvars, fvars, cvars, wvars>>

vars == <<dvars, yvars, pvars, xvars>>

---------------------------------------------------------------------------
\* Bounds of the model
MaxCronJobs == 2
MaxRuns == 2
MaxNameLen == 2
MaxPieces == 3
MaxRequests == 2

None == "None"

---------------------------------------------------------------------------
\* Names

\* deprovisioning_service.py:21-25
PROTECTED_NAMESPACES ==
    { <<"d","e","f","a","u","l","t">>,
      <<"k","u","b","e","-","s","y","s","t","e","m">>,
      <<"a","z","u","r","e","-","a","l","b","-","s","y","s","t","e","m">>,
      <<"p","r","o","j","e","c","t">>,
      <<"k","u","b","e","-","p","u","b","l","i","c">>,
      <<"k","u","b","e","-","n","o","d","e","-","l","e","a","s","e">>,
      <<"a","z","u","r","e","-","s","y","s","t","e","m">>,
      <<"g","a","t","e","k","e","e","p","e","r","-","s","y","s","t","e","m">> }

\* Branch names the requests of the model carry (all valid DNS labels).
Branches ==
    { <<"a">>,
      <<"e","x","-","c","3">>,
      <<"d","e","f","a","u","l","t">> }

\* Variant: the namespace is named after the branch, without a prefix.
NamespaceFor_Bare(b) == b

\* f"feature-{branch_name}"  (deprovisioning_service.py:703, 723)
NamespaceFor(b) == <<"f","e","a","t","u","r","e","-">> \o b

\* database_name.replace("-", "_")  (deprovisioning_service.py:83)
SanitizedDbName(b) == [i \in 1..Len(b) |-> IF b[i] = "-" THEN "_" ELSE b[i]]

---------------------------------------------------------------------------
\* Strings (sequences of one-character strings) and the Python string
\* methods the functions use

Repeat(c, n) == [i \in 1..n |-> c]

StringsOver(chars, n) == UNION { [1..k -> chars] : k \in 0..n }

LowerLetters ==
    {"a", "b", "c", "d", "e", "f", "g", "h", "i", "j", "k", "l", "m",
     "n", "o", "p", "q", "r", "s", "t", "u", "v", "w", "x", "y", "z"}

Digits == {"0", "1", "2", "3", "4", "5", "6", "7", "8", "9"}

\* The ASCII characters str.strip() and str.split() treat as whitespace.
Whitespace == {" ", "\t", "\n", "\r", "\f"}

RECURSIVE LStrip(_)
LStrip(s) == IF s # << >> /\ Head(s) \in Whitespace THEN LStrip(Tail(s)) ELSE s

RECURSIVE RStrip(_)
RStrip(s) ==
    IF s # << >> /\ s[Len(s)] \in Whitespace
    THEN RStrip(SubSeq(s, 1, Len(s) - 1))
    ELSE s

\* s.strip()
Strip(s) == RStrip(LStrip(s))

\* pat in s
Contains(s, pat) ==
    \E i \in 1..(Len(s) - Len(pat) + 1) : SubSeq(s, i, i + Len(pat) - 1) = pat

\* s.startswith(pat)
StartsWith(s, pat) == Len(s) >= Len(pat) /\ SubSeq(s, 1, Len(pat)) = pat

\* s.split(sep) for a separator of one character
RECURSIVE Split(_, _)
Split(s, sep) ==
    IF \A i \in 1..Len(s) : s[i] # sep
    THEN <<s>>
    ELSE LET k == CHOOSE i \in 1..Len(s) :
                      s[i] = sep /\ \A j \in 1..(i - 1) : s[j] # sep
         IN  <<SubSeq(s, 1, k - 1)>> \o Split(SubSeq(s, k + 1, Len(s)), sep)

RECURSIVE TakeToken(_)
TakeToken(s) ==
    IF s = << >> \/ Head(s) \in Whitespace
    THEN << >>
    ELSE <<Head(s)>> \o TakeToken(Tail(s))

\* s.split()[0] for a string that is not blank
FirstToken(s) == TakeToken(LStrip(s))

\* s.replace(old, new) for a non-empty old: the occurrences are replaced from
\* left to right, without overlap.
RECURSIVE Replace(_, _, _)
Replace(s, old, new) ==
    IF Len(s) < Len(old) THEN s
    ELSE IF StartsWith(s, old)
         THEN new \o Replace(SubSeq(s, Len(old) + 1, Len(s)), old, new)
         ELSE <<Head(s)>> \o Replace(Tail(s), old, new)

---------------------------------------------------------------------------
\* The request models

\* models_requests.py:8-10
MAX_BRANCH_NAME_LENGTH == 63
MIN_BRANCH_NAME_LENGTH == 1

\* The value of a constructor or function that raised.
Rejected(error) == [returned |-> TRUE, raised |-> TRUE, error |-> error]

\* re.match(r"^[a-z0-9]([-a-z0-9]*[a-z0-9])?$", v)  (models_requests.py:44):
\* some prefix of v has the shape of the pattern and "$" holds after it.  In
\* Python "$" holds at the end of the string and also just before a line feed
\* that ends the string.
DnsLabelMatch(v) ==
    \E n \in 1..Len(v) :
        /\ v[1] \in LowerLetters \cup Digits
        /\ v[n] \in LowerLetters \cup Digits
        /\ \A i \in 1..n : v[i] \in LowerLetters \cup Digits \cup {"-"}
        /\ \/ n = Len(v)
           \/ n = Len(v) - 1 /\ v[Len(v)] = "\n"

\* DeprovisionRequest(branch_name=v)  (models_requests.py:13-56): the length
\* constraints of the field (16-23), then validate_branch_name (25-56).
DeprovisionRequest(v) ==
    IF Len(v) < MIN_BRANCH_NAME_LENGTH THEN Rejected("string_too_short")
    ELSE IF Len(v) > MAX_BRANCH_NAME_LENGTH THEN Rejected("string_too_long")
    ELSE IF v = << >> THEN Rejected("branch_name cannot be empty")
    ELSE IF ~DnsLabelMatch(v) THEN Rejected("branch_name must be a valid DNS-1123 label")
    ELSE IF Len(v) > MAX_BRANCH_NAME_LENGTH THEN Rejected("branch_name cannot exceed")
    ELSE [returned |-> TRUE, raised |-> FALSE, branch_name |-> v]

\* Variant: the validators check the stripped value but store the value as
\* it was given.
DeploymentRequest_StoresUnstripped(b, c) ==
    IF b = << >> \/ Strip(b) = << >> THEN Rejected("Branch name cannot be empty")
    ELSE IF c = << >> \/ Strip(c) = << >> THEN Rejected("Commit SHA cannot be empty")
    ELSE [ returned |-> TRUE, raised |-> FALSE,
           branch_name |-> b,
           commit_sha |-> c,
           namespace |-> <<"f","e","a","t","u","r","e","-">> \o b,
           image_tag_suffix |-> b \o <<"-">> \o c ]

\* DeploymentRequest(branch_name=b, commit_sha=c)
\* (deployment-function/models/requests.py:6-38): the two validators, then the
\* two properties computed from the stored fields.
DeploymentRequest(b, c) ==
    IF b = << >> \/ Strip(b) = << >> THEN Rejected("Branch name cannot be empty")
    ELSE IF c = << >> \/ Strip(c) = << >> THEN Rejected("Commit SHA cannot be empty")
    ELSE [ returned |-> TRUE, raised |-> FALSE,
           branch_name |-> Strip(b),
           commit_sha |-> Strip(c),
           namespace |-> <<"f","e","a","t","u","r","e","-">> \o Strip(b),
           image_tag_suffix |-> Strip(b) \o <<"-">> \o Strip(c) ]

---------------------------------------------------------------------------
\* Values

NoRet == [returned |-> FALSE]

\* A step function that raised exception class exc.
Raised(exc) == [returned |-> TRUE, raised |-> TRUE, exc |-> exc]

\* One entry of the call log.
Call(name, answer) == [call |-> name, answer |-> answer]

InitialOperations ==
    [ database_deleted    |-> FALSE,
      database_name       |-> None,
      credentials_deleted |-> [database_credential |-> FALSE,
                               keyvault_credential |-> FALSE],
      namespace_deleted   |-> FALSE,
      namespace_name      |-> NamespaceFor(branch_name),
      cronjobs_suspended  |-> 0 ]

CronJobLists == UNION { [1..n -> BOOLEAN] : n \in 0..MaxCronJobs }

---------------------------------------------------------------------------
\* deprovision_environment, step 1: what the orchestrator does with the
\* outcome of delete_namespace (deprovisioning_service.py:722-757).
RecordNamespace(res) ==
    IF res.raised
    THEN /\ timing' = timing @@ ("namespace_duration_seconds" :> "zero")
         /\ errors' = Append(errors, [operation |-> "namespace_deletion",
                                      severity  |-> "critical",
                                      exc       |-> res.exc])
         /\ UNCHANGED operations
    ELSE /\ operations' = [operations EXCEPT
                              !.namespace_deleted  = res.deleted,
                              !.cronjobs_suspended = res.cronjobs_suspended]
         /\ timing' = timing @@ ("namespace_duration_seconds" :> "measured")
         /\ UNCHANGED errors

\* Variant: a failed namespace deletion ends the workflow (fail-fast).
NamespaceExit_FailFast(res) ==
    /\ nsRet' = res
    /\ IF entry = "deprovision_environment"
       THEN /\ RecordNamespace(res)
            /\ pc' = IF res.raised THEN "build_result" ELSE "fc_client"
       ELSE /\ pc' = "done"
            /\ UNCHANGED <<operations, timing, errors>>

\* delete_namespace leaves with res (a return value or an exception); control
\* goes back to the caller: deprovision_environment continues with step 2.
NamespaceExit(res) ==
    /\ nsRet' = res
    /\ IF entry = "deprovision_environment"
       THEN /\ RecordNamespace(res)
            /\ pc' = "fc_client"
       ELSE /\ pc' = "done"
            /\ UNCHANGED <<operations, timing, errors>>

\* The call that ends the inner try block of delete_namespace, followed by
\* the finally block that removes the file (deprovisioning_service.py:631-634).
LastCallThenUnlink(name, answer) ==
    /\ kubeconfigFile' = FALSE
    /\ calls' = calls \o <<Call(name, answer), Call("unlink_kubeconfig", "ok")>>

\* Variables no step of delete_namespace touches.
NsFrame == UNCHANGED <<entry, branch_name, namespace_name, credExists, dbExists,
                       adminPassword, connOpen, credLocal, credRet, dbRet, result,
                       initial, run, prevStatus, yvars, pvars, xvars>>

\* Variant: the guard knows only the kube-* namespaces.
DN_ProtectedCheck_KubeOnly ==
    /\ pc = "dn_check"
    /\ steps' = Append(steps, "delete_namespace")
    /\ IF namespace_name \in {n \in PROTECTED_NAMESPACES : SubSeq(n, 1, 4) = <<"k","u","b","e">>}
       THEN NamespaceExit(Raised("ValueError"))
       ELSE /\ pc' = "dn_credentials"
            /\ UNCHANGED <<nsRet, operations, timing, errors>>
    /\ UNCHANGED <<nsExists, cronjobs, calls, kubeconfigFile, cronIdx, suspended_count>>
    /\ NsFrame

\* deprovisioning_service.py:509-516
DN_ProtectedCheck ==
    /\ pc = "dn_check"
    /\ steps' = Append(steps, "delete_namespace")
    /\ IF namespace_name \in PROTECTED_NAMESPACES
       THEN NamespaceExit(Raised("ValueError"))
       ELSE /\ pc' = "dn_credentials"
            /\ UNCHANGED <<nsRet, operations, timing, errors>>
    /\ UNCHANGED <<nsExists, cronjobs, calls, kubeconfigFile, cronIdx, suspended_count>>
    /\ NsFrame

\* deprovisioning_service.py:529-542 (the except clauses 636-666 re-raise)
DN_ListClusterAdminCredentials ==
    /\ pc = "dn_credentials"
    /\ \E answer \in {"ok", "no_kubeconfigs", "error"} :
          /\ calls' = Append(calls, Call("list_cluster_admin_credentials", answer))
          /\ IF answer = "ok"
             THEN /\ pc' = "dn_kubeconfig"
                  /\ UNCHANGED <<nsRet, operations, timing, errors>>
             ELSE NamespaceExit(Raised("Exception"))
    /\ UNCHANGED <<nsExists, cronjobs, kubeconfigFile, cronIdx, suspended_count, steps>>
    /\ NsFrame

\* deprovisioning_service.py:548-553
DN_WriteKubeconfig ==
    /\ pc = "dn_kubeconfig"
    /\ calls' = Append(calls, Call("write_kubeconfig", "ok"))
    /\ kubeconfigFile' = TRUE
    /\ pc' = "dn_load"
    /\ UNCHANGED <<nsExists, cronjobs, cronIdx, suspended_count, steps,
                   nsRet, operations, timing, errors>>
    /\ NsFrame

\* deprovisioning_service.py:555-561
DN_LoadKubeConfig ==
    /\ pc = "dn_load"
    /\ \E answer \in {"ok", "error"} :
          IF answer = "ok"
          THEN /\ calls' = Append(calls, Call("load_kube_config", "ok"))
               /\ pc' = "dn_read"
               /\ UNCHANGED <<kubeconfigFile, nsRet, operations, timing, errors>>
          ELSE /\ LastCallThenUnlink("load_kube_config", "error")
               /\ NamespaceExit(Raised("Exception"))
    /\ UNCHANGED <<nsExists, cronjobs, cronIdx, suspended_count, steps>>
    /\ NsFrame

\* A normal return of delete_namespace (deprovisioning_service.py:588-594, 624-629).
NsReturn(n, status) ==
    [returned |-> TRUE, raised |-> FALSE, deleted |-> TRUE,
     cronjobs_suspended |-> n, status |-> status]

\* Variant: a 404 of the existence check is not an early return.
DN_ReadNamespace_NoEarlyReturn ==
    /\ pc = "dn_read"
    /\ \E answer \in (IF nsExists THEN {"ok"} ELSE {"not_found"}) \cup {"error"} :
          IF answer \in {"ok", "not_found"}
          THEN /\ pc' = "dn_list_cron"
               /\ calls' = Append(calls, Call("read_namespace", answer))
               /\ UNCHANGED <<kubeconfigFile, nsRet, operations, timing, errors>>
          ELSE /\ LastCallThenUnlink("read_namespace", "error")
               /\ NamespaceExit(Raised("ApiException"))
    /\ UNCHANGED <<nsExists, cronjobs, cronIdx, suspended_count, steps>>
    /\ NsFrame

\* deprovisioning_service.py:563-595: the existence check.  A namespace that is
\* absent answers 404; any call may fail for another reason.
DN_ReadNamespace ==
    /\ pc = "dn_read"
    /\ \E answer \in (IF nsExists THEN {"ok"} ELSE {"not_found"}) \cup {"error"} :
          CASE answer = "ok" ->
                 /\ pc' = "dn_list_cron"
                 /\ calls' = Append(calls, Call("read_namespace", "ok"))
                 /\ UNCHANGED <<kubeconfigFile, nsRet, operations, timing, errors>>
            [] answer = "not_found" ->
                 /\ LastCallThenUnlink("read_namespace", "not_found")
                 /\ NamespaceExit(NsReturn(0, "already_deleted"))
            [] answer = "error" ->
                 /\ LastCallThenUnlink("read_namespace", "error")
                 /\ NamespaceExit(Raised("ApiException"))
    /\ UNCHANGED <<nsExists, cronjobs, cronIdx, suspended_count, steps>>
    /\ NsFrame

\* suspend_cronjobs_in_namespace returned n to delete_namespace (line 598).
SuspendReturns(n) ==
    /\ suspended_count' = n
    /\ pc' = "dn_delete"
    /\ UNCHANGED <<kubeconfigFile, nsRet, operations, timing, errors>>

\* Variant: a suspension failure is swallowed and counts as 0 suspended.
SuspendRaises_Swallowed(name, exc) ==
    /\ calls' = Append(calls, Call(name, "error"))
    /\ SuspendReturns(0)

\* suspend_cronjobs_in_namespace raised (lines 470-494); delete_namespace lets
\* the exception pass through its finally block and its except clauses.
SuspendRaises(name, exc) ==
    /\ LastCallThenUnlink(name, "error")
    /\ UNCHANGED suspended_count
    /\ NamespaceExit(Raised(exc))

\* deprovisioning_service.py:418-423, 457-494: list the CronJobs.
DN_ListCronJobs ==
    /\ pc = "dn_list_cron"
    /\ \E answer \in {"ok", "not_found", "error"} :
          CASE answer = "ok" ->
                 /\ calls' = Append(calls, Call("list_namespaced_cron_job", "ok"))
                 /\ pc' = "dn_patch_cron"
                 /\ cronIdx' = 1
                 /\ suspended_count' = 0
                 /\ UNCHANGED <<kubeconfigFile, nsRet, operations, timing, errors>>
            [] answer = "not_found" ->
                 /\ calls' = Append(calls, Call("list_namespaced_cron_job", "not_found"))
                 /\ UNCHANGED cronIdx
                 /\ SuspendReturns(0)
            [] answer = "error" ->
                 /\ UNCHANGED cronIdx
                 /\ SuspendRaises("list_namespaced_cron_job", "ApiException")
    /\ UNCHANGED <<nsExists, cronjobs, steps>>
    /\ NsFrame

\* deprovisioning_service.py:424-443: one iteration of the loop over the
\* CronJobs; an already suspended CronJob is skipped without a call.
DN_PatchCronJob ==
    /\ pc = "dn_patch_cron"
    /\ cronIdx <= Len(cronjobs)
    /\ IF cronjobs[cronIdx]
       THEN /\ cronIdx' = cronIdx + 1
            /\ UNCHANGED <<cronjobs, calls, pc, suspended_count, kubeconfigFile,
                           nsRet, operations, timing, errors>>
       ELSE \E answer \in {"ok", "not_found", "error"} :
              CASE answer = "ok" ->
                     /\ calls' = Append(calls, Call("patch_namespaced_cron_job", "ok"))
                     /\ cronjobs' = [cronjobs EXCEPT ![cronIdx] = TRUE]
                     /\ suspended_count' = suspended_count + 1
                     /\ cronIdx' = cronIdx + 1
                     /\ UNCHANGED <<pc, kubeconfigFile, nsRet, operations, timing, errors>>
                [] answer = "not_found" ->
                     /\ calls' = Append(calls, Call("patch_namespaced_cron_job", "not_found"))
                     /\ UNCHANGED <<cronjobs, cronIdx>>
                     /\ SuspendReturns(0)
                [] answer = "error" ->
                     /\ UNCHANGED <<cronjobs, cronIdx>>
                     /\ SuspendRaises("patch_namespaced_cron_job", "ApiException")
    /\ UNCHANGED <<nsExists, steps>>
    /\ NsFrame

\* deprovisioning_service.py:445-455: the loop is over, return suspended_count.
DN_SuspendDone ==
    /\ pc = "dn_patch_cron"
    /\ cronIdx > Len(cronjobs)
    /\ SuspendReturns(suspended_count)
    /\ UNCHANGED <<nsExists, cronjobs, calls, cronIdx, steps>>
    /\ NsFrame

\* deprovisioning_service.py:611-634: the delete call, then the finally block.
DN_DeleteNamespace ==
    /\ pc = "dn_delete"
    /\ \E answer \in {"ok", "error"} :
          /\ LastCallThenUnlink("delete_namespace", answer)
          /\ IF answer = "ok"
             THEN /\ nsExists' = FALSE
                  /\ cronjobs' = << >>
                  /\ NamespaceExit(NsReturn(suspended_count, None))
             ELSE /\ UNCHANGED <<nsExists, cronjobs>>
                  /\ NamespaceExit(Raised("ApiException"))
    /\ UNCHANGED <<cronIdx, suspended_count, steps>>
    /\ NsFrame

\* deprovisioning_service.py:496-666
delete_namespace ==
    \/ DN_ProtectedCheck
    \/ DN_ListClusterAdminCredentials
    \/ DN_WriteKubeconfig
    \/ DN_LoadKubeConfig
    \/ DN_ReadNamespace
    \/ DN_ListCronJobs
    \/ DN_PatchCronJob
    \/ DN_SuspendDone
    \/ DN_DeleteNamespace

---------------------------------------------------------------------------
\* Variant: a failed credentials step is a critical error.
RecordCredentials_Critical(res) ==
    IF res.raised
    THEN /\ timing' = timing @@ ("credentials_duration_seconds" :> "zero")
         /\ errors' = Append(errors, [operation |-> "credentials_deletion",
                                      severity  |-> "critical",
                                      exc       |-> res.exc])
         /\ UNCHANGED operations
    ELSE /\ operations' = [operations EXCEPT !.credentials_deleted = res.deleted]
         /\ timing' = timing @@ ("credentials_duration_seconds" :> "measured")
         /\ errors' = errors \o res.errors

\* Variant: a step that raised leaves no entry in the timing map.
RecordCredentials_NoTimingOnError(res) ==
    IF res.raised
    THEN /\ errors' = Append(errors, [operation |-> "credentials_deletion",
                                      severity  |-> "warning",
                                      exc       |-> res.exc])
         /\ UNCHANGED <<operations, timing>>
    ELSE /\ operations' = [operations EXCEPT !.credentials_deleted = res.deleted]
         /\ timing' = timing @@ ("credentials_duration_seconds" :> "measured")
         /\ errors' = errors \o res.errors

\* deprovision_environment, step 2 (deprovisioning_service.py:770-808).
RecordCredentials(res) ==
    IF res.raised
    THEN /\ timing' = timing @@ ("credentials_duration_seconds" :> "zero")
         /\ errors' = Append(errors, [operation |-> "credentials_deletion",
                                      severity  |-> "warning",
                                      exc       |-> res.exc])
         /\ UNCHANGED operations
    ELSE /\ operations' = [operations EXCEPT !.credentials_deleted = res.deleted]
         /\ timing' = timing @@ ("credentials_duration_seconds" :> "measured")
         /\ errors' = errors \o res.errors

CredentialsExit(res) ==
    /\ credRet' = res
    /\ RecordCredentials(res)
    /\ pc' = "db_password"

CredFrame == UNCHANGED <<entry, branch_name, namespace_name, nsExists, cronjobs,
                         dbExists, adminPassword, kubeconfigFile, connOpen, cronIdx,
                         suspended_count, nsRet, dbRet, result, initial, run, prevStatus,
                         yvars, pvars, xvars>>

\* deprovisioning_service.py:240-261
FC_GetIdentityClient ==
    /\ pc = "fc_client"
    /\ steps' = Append(steps, "delete_federated_credentials")
    /\ \E answer \in {"ok", "error"} :
          /\ calls' = Append(calls, Call("get_identity_client", answer))
          /\ IF answer = "ok"
             THEN /\ credLocal' = [database_credential |-> FALSE,
                                   keyvault_credential |-> FALSE,
                                   errors |-> << >>]
                  /\ pc' = "fc_database"
                  /\ UNCHANGED <<credRet, operations, timing, errors>>
             ELSE /\ UNCHANGED credLocal
                  /\ CredentialsExit(Raised("Exception"))
    /\ UNCHANGED credExists
    /\ CredFrame

\* The answers of federated_identity_credentials.delete for one credential.
CredentialAnswers(which) ==
    (IF credExists[which] THEN {"ok"} ELSE {"not_found"}) \cup {"error"}

\* Variant: a failed delete leaves the flag false without recording a warning.
DeleteCredential_SilentFailure(which, answer) ==
    /\ calls' = Append(calls, Call("delete_" \o which, answer))
    /\ CASE answer = "ok" ->
              /\ credExists' = [credExists EXCEPT ![which] = FALSE]
              /\ credLocal' = [credLocal EXCEPT ![which] = TRUE]
         [] answer = "not_found" ->
              /\ UNCHANGED credExists
              /\ credLocal' = [credLocal EXCEPT ![which] = TRUE]
         [] answer = "error" ->
              /\ UNCHANGED <<credExists, credLocal>>

\* Variant: not-found is handled like any other failure.
DeleteCredential_NotFoundFails(which, answer) ==
    /\ calls' = Append(calls, Call("delete_" \o which, answer))
    /\ IF answer = "ok"
       THEN /\ credExists' = [credExists EXCEPT ![which] = FALSE]
            /\ credLocal' = [credLocal EXCEPT ![which] = TRUE]
       ELSE /\ UNCHANGED credExists
            /\ credLocal' = [credLocal EXCEPT !.errors =
                    Append(@, [operation |-> which \o "_deletion",
                               severity  |-> "warning",
                               exc       |-> "Exception"])]

\* One try/except block of delete_federated_credentials: lines 264-324 for the
\* database credential, 327-387 for the keyvault credential.
DeleteCredential(which, answer) ==
    /\ calls' = Append(calls, Call("delete_" \o which, answer))
    /\ CASE answer = "ok" ->
              /\ credExists' = [credExists EXCEPT ![which] = FALSE]
              /\ credLocal' = [credLocal EXCEPT ![which] = TRUE]
         [] answer = "not_found" ->
              /\ UNCHANGED credExists
              /\ credLocal' = [credLocal EXCEPT ![which] = TRUE]
         [] answer = "error" ->
              /\ UNCHANGED credExists
              /\ credLocal' = [credLocal EXCEPT !.errors =
                      Append(@, [operation |-> which \o "_deletion",
                                 severity  |-> "warning",
                                 exc       |-> "Exception"])]

\* Variant: a failure of the first credential ends the step at once.
FC_DeleteDatabaseCredential_Abort ==
    /\ pc = "fc_database"
    /\ \E answer \in CredentialAnswers("database_credential") :
          /\ DeleteCredential("database_credential", answer)
          /\ IF answer = "error"
             THEN CredentialsExit([returned |-> TRUE, raised |-> FALSE,
                        deleted  |-> [database_credential |-> FALSE,
                                      keyvault_credential |-> FALSE],
                        errors   |-> credLocal'.errors])
             ELSE /\ pc' = "fc_keyvault"
                  /\ UNCHANGED <<credRet, operations, timing, errors>>
    /\ UNCHANGED steps
    /\ CredFrame

\* deprovisioning_service.py:263-324
FC_DeleteDatabaseCredential ==
    /\ pc = "fc_database"
    /\ \E answer \in CredentialAnswers("database_credential") :
          DeleteCredential("database_credential", answer)
    /\ pc' = "fc_keyvault"
    /\ UNCHANGED <<credRet, operations, timing, errors, steps>>
    /\ CredFrame

\* deprovisioning_service.py:326-395: the second credential, then the return.
FC_DeleteKeyvaultCredential ==
    /\ pc = "fc_keyvault"
    /\ \E answer \in CredentialAnswers("keyvault_credential") :
          DeleteCredential("keyvault_credential", answer)
    /\ CredentialsExit([returned |-> TRUE, raised |-> FALSE,
                        deleted  |-> [database_credential |-> credLocal'.database_credential,
                                      keyvault_credential |-> credLocal'.keyvault_credential],
                        errors   |-> credLocal'.errors])
    /\ UNCHANGED steps
    /\ CredFrame

\* deprovisioning_service.py:228-395
delete_federated_credentials ==
    \/ FC_GetIdentityClient
    \/ FC_DeleteDatabaseCredential
    \/ FC_DeleteKeyvaultCredential

---------------------------------------------------------------------------
\* Variant: a failed database deletion discards what the earlier steps recorded.
RecordDatabase_ResetOnError(res) ==
    IF res.raised
    THEN /\ timing' = timing @@ ("database_duration_seconds" :> "zero")
         /\ errors' = Append(errors, [operation |-> "database_deletion",
                                      severity  |-> "critical",
                                      exc       |-> res.exc])
         /\ operations' = InitialOperations
    ELSE /\ operations' = [operations EXCEPT
                              !.database_deleted = res.deleted,
                              !.database_name    = res.database_name]
         /\ timing' = timing @@ ("database_duration_seconds" :> "measured")
         /\ UNCHANGED errors

\* deprovision_environment, step 3 (deprovisioning_service.py:821-856).
RecordDatabase(res) ==
    IF res.raised
    THEN /\ timing' = timing @@ ("database_duration_seconds" :> "zero")
         /\ errors' = Append(errors, [operation |-> "database_deletion",
                                      severity  |-> "critical",
                                      exc       |-> res.exc])
         /\ UNCHANGED operations
    ELSE /\ operations' = [operations EXCEPT
                              !.database_deleted = res.deleted,
                              !.database_name    = res.database_name]
         /\ timing' = timing @@ ("database_duration_seconds" :> "measured")
         /\ UNCHANGED errors

DatabaseExit(res) ==
    /\ dbRet' = res
    /\ RecordDatabase(res)
    /\ pc' = "build_result"

\* deprovisioning_service.py:190-195
DbReturn ==
    [returned |-> TRUE, raised |-> FALSE, deleted |-> TRUE,
     database_name |-> SanitizedDbName(branch_name)]

DbFrame == UNCHANGED <<entry, branch_name, namespace_name, nsExists, cronjobs,
                       credExists, adminPassword, kubeconfigFile, cronIdx,
                       suspended_count, credLocal, nsRet, credRet, result,
                       initial, run, prevStatus, yvars, pvars, xvars>>

\* deprovisioning_service.py:67-80
DB_PasswordCheck ==
    /\ pc = "db_password"
    /\ steps' = Append(steps, "delete_database")
    /\ IF adminPassword
       THEN /\ pc' = "db_connect"
            /\ UNCHANGED <<dbRet, operations, timing, errors>>
       ELSE DatabaseExit(Raised("ValueError"))
    /\ UNCHANGED <<calls, dbExists, connOpen>>
    /\ DbFrame

\* deprovisioning_service.py:106-113; a failure is re-raised by 197-226.
DB_Connect ==
    /\ pc = "db_connect"
    /\ \E answer \in {"ok", "error"} :
          /\ calls' = Append(calls, Call("connect", answer))
          /\ IF answer = "ok"
             THEN /\ connOpen' = TRUE
                  /\ pc' = "db_select"
                  /\ UNCHANGED <<dbRet, operations, timing, errors>>
             ELSE /\ UNCHANGED connOpen
                  /\ DatabaseExit(Raised("psycopg2.Error"))
    /\ UNCHANGED <<dbExists, steps>>
    /\ DbFrame

\* Variant: an existing database is dropped without terminating its backends.
DB_SelectExists_SkipTerminate ==
    /\ pc = "db_select"
    /\ \E answer \in {"ok", "error"} :
          /\ calls' = Append(calls, Call("select_pg_database", answer))
          /\ CASE answer = "ok" /\ dbExists ->
                    /\ pc' = "db_drop"
                    /\ UNCHANGED <<connOpen, dbRet, operations, timing, errors>>
               [] answer = "ok" /\ ~dbExists ->
                    /\ connOpen' = FALSE
                    /\ DatabaseExit(DbReturn)
               [] answer = "error" ->
                    /\ UNCHANGED connOpen
                    /\ DatabaseExit(Raised("psycopg2.Error"))
    /\ UNCHANGED <<dbExists, steps>>
    /\ DbFrame

\* deprovisioning_service.py:124-141, 180-195: the existence query; an absent
\* database closes the connection and returns deleted=True.
DB_SelectExists ==
    /\ pc = "db_select"
    /\ \E answer \in {"ok", "error"} :
          /\ calls' = Append(calls, Call("select_pg_database", answer))
          /\ CASE answer = "ok" /\ dbExists ->
                    /\ pc' = "db_terminate"
                    /\ UNCHANGED <<connOpen, dbRet, operations, timing, errors>>
               [] answer = "ok" /\ ~dbExists ->
                    /\ connOpen' = FALSE
                    /\ DatabaseExit(DbReturn)
               [] answer = "error" ->
                    /\ UNCHANGED connOpen
                    /\ DatabaseExit(Raised("psycopg2.Error"))
    /\ UNCHANGED <<dbExists, steps>>
    /\ DbFrame

\* deprovisioning_service.py:143-157
DB_TerminateBackends ==
    /\ pc = "db_terminate"
    /\ \E answer \in {"ok", "error"} :
          /\ calls' = Append(calls, Call("pg_terminate_backend", answer))
          /\ IF answer = "ok"
             THEN /\ pc' = "db_drop"
                  /\ UNCHANGED <<dbRet, operations, timing, errors>>
             ELSE DatabaseExit(Raised("psycopg2.Error"))
    /\ UNCHANGED <<dbExists, connOpen, steps>>
    /\ DbFrame

\* deprovisioning_service.py:159-195
DB_DropDatabase ==
    /\ pc = "db_drop"
    /\ \E answer \in {"ok", "error"} :
          /\ calls' = Append(calls, Call("drop_database", answer))
          /\ IF answer = "ok"
             THEN /\ dbExists' = FALSE
                  /\ connOpen' = FALSE
                  /\ DatabaseExit(DbReturn)
             ELSE /\ UNCHANGED <<dbExists, connOpen>>
                  /\ DatabaseExit(Raised("psycopg2.Error"))
    /\ UNCHANGED steps
    /\ DbFrame

\* deprovisioning_service.py:55-226
delete_database ==
    \/ DB_PasswordCheck
    \/ DB_Connect
    \/ DB_SelectExists
    \/ DB_TerminateBackends
    \/ DB_DropDatabase

---------------------------------------------------------------------------
\* deprovisioning_service.py:863
CriticalErrors(errs) == SelectSeq(errs, LAMBDA e : e.severity = "critical")

\* Variant: any recorded error, whatever its severity, makes the status "error".
OverallStatus_AnyError(errs) ==
    IF Len(errs) > 0 THEN "error" ELSE "success"

\* deprovisioning_service.py:864-872: the overall status
OverallStatus(errs) ==
    IF Len(CriticalErrors(errs)) > 0 THEN "error" ELSE "success"

\* deprovisioning_service.py:858-883, 930-931.  The "errors" key is set only
\* when the list is not empty (has_errors).
BuildResult ==
    /\ pc = "build_result"
    /\ timing' = timing @@ ("total_duration_seconds" :> "measured")
    /\ result' = [ status      |-> OverallStatus(errors),
                   branch_name |-> branch_name,
                   operations  |-> operations,
                   timing      |-> timing',
                   has_errors  |-> Len(errors) > 0,
                   errors      |-> errors ]
    /\ pc' = "done"
    /\ UNCHANGED <<entry, branch_name, namespace_name, nsExists, cronjobs, credExists,
                   dbExists, adminPassword, calls, kubeconfigFile, connOpen, cronIdx,
                   suspended_count, credLocal, nsRet, credRet, dbRet, operations, errors,
                   steps, initial, run, prevStatus, yvars, pvars, xvars>>

NoResult == [status |-> None]

World == [ns |-> nsExists, creds |-> credExists, db |-> dbExists]

\* The feature overlay has no kustomization.yaml (deployment_service.py:436).
NoKustomization == [exists |-> FALSE, text |-> << >>]

\* No deployment request is being served.
DeployIdle ==
    /\ commit_sha = << >>
    /\ y_pc = "idle"
    /\ y_calls = << >>
    /\ tempKubeconfigs = 0
    /\ k8s_client = FALSE
    /\ kustomization = NoKustomization
    /\ rolloutIdx = 0
    /\ deployed_resources = << >>
    /\ health_checks = << >>
    /\ response = [returned |-> FALSE]

\* No HTTP handler of the deployment or deprovisioning function is running, no
\* pure function is being called, and the worker serves no concurrent requests.
EndpointsIdle ==
    /\ y_request = "none"
    /\ y_http = [sent |-> FALSE]
    /\ d_request = "none"
    /\ d_http = [sent |-> FALSE]

FunctionsIdle ==
    /\ fn = "none"
    /\ arg = << >>
    /\ ret = [returned |-> FALSE]

WorkerIdle ==
    /\ c_pc = << >>
    /\ c_kubeconfig = << >>
    /\ default_configuration = 0
    /\ c_client = << >>

\* No workflow of the side-by-side arrangements exists.
WorkflowsIdle ==
    /\ w_pc = << >>
    /\ w_world = << >>
    /\ w_local = << >>
    /\ w_result = << >>

\* No provisioning request is being served.
ProvisionIdle ==
    /\ request = "none"
    /\ settings_ok = TRUE
    /\ p_dbExists = FALSE
    /\ p_credExists = FALSE
    /\ p_nsExists = FALSE
    /\ oidc_issuer = TRUE
    /\ p_pc = "idle"
    /\ p_calls = << >>
    /\ p_conn = FALSE
    /\ p_kubeconfigFile = FALSE
    /\ database_created = FALSE
    /\ credential_created = FALSE
    /\ namespace_created = FALSE
    /\ p_result = [returned |-> FALSE]
    /\ http_response = [sent |-> FALSE]
    /\ p_initial = [database |-> FALSE, credential |-> FALSE, namespace |-> FALSE]
    /\ p_run = 1
    /\ p_prevStatus = None

\* The state of a request that has just arrived: nothing has run yet.
FreshLocals ==
    /\ pc = "dn_check"
    /\ calls = << >>
    /\ steps = << >>
    /\ kubeconfigFile = FALSE
    /\ connOpen = FALSE
    /\ cronIdx = 0
    /\ suspended_count = 0
    /\ credLocal = [database_credential |-> FALSE, keyvault_credential |-> FALSE,
                    errors |-> << >>]
    /\ nsRet = NoRet
    /\ credRet = NoRet
    /\ dbRet = NoRet
    /\ operations = InitialOperations
    /\ timing = << >>
    /\ errors = << >>
    /\ result = NoResult

\* The caller sends the same request again after the previous run answered:
\* a new DeprovisioningService runs against the world the previous run left.
DeprovisionAgain ==
    /\ pc = "done"
    /\ entry = "deprovision_environment"
    /\ run < MaxRuns
    /\ run' = run + 1
    /\ prevStatus' = result.status
    /\ initial' = World
    /\ pc' = "dn_check"
    /\ calls' = << >>
    /\ steps' = << >>
    /\ kubeconfigFile' = FALSE
    /\ connOpen' = FALSE
    /\ cronIdx' = 0
    /\ suspended_count' = 0
    /\ credLocal' = [database_credential |-> FALSE, keyvault_credential |-> FALSE,
                     errors |-> << >>]
    /\ nsRet' = NoRet
    /\ credRet' = NoRet
    /\ dbRet' = NoRet
    /\ operations' = InitialOperations
    /\ timing' = << >>
    /\ errors' = << >>
    /\ result' = NoResult
    /\ UNCHANGED <<entry, branch_name, namespace_name, nsExists, cronjobs, credExists,
                   dbExists, adminPassword, yvars, pvars, xvars>>

\* deprovisioning_service.py:668-931
deprovision_environment ==
    \/ delete_namespace
    \/ delete_federated_credentials
    \/ delete_database
    \/ BuildResult

---------------------------------------------------------------------------
\* A caller invokes deprovision_environment(branch) (function_app.py), or
\* delete_namespace(name) directly (test_deprovisioning_service.py:42-48), in
\* any state of the cluster, the identity service and the database server.
InitDeprovision ==
    /\ entry \in {"deprovision_environment", "delete_namespace"}
    /\ branch_name \in Branches
    /\ namespace_name \in
          IF entry = "deprovision_environment"
          THEN {NamespaceFor(branch_name)}
          ELSE PROTECTED_NAMESPACES \cup {NamespaceFor(branch_name)}
    /\ nsExists \in (IF namespace_name \in PROTECTED_NAMESPACES THEN {TRUE} ELSE BOOLEAN)
    /\ cronjobs \in (IF nsExists THEN CronJobLists ELSE {<< >>})
    /\ credExists \in [{"database_credential", "keyvault_credential"} -> BOOLEAN]
    /\ dbExists \in BOOLEAN
    /\ adminPassword \in BOOLEAN
    /\ initial = World
    /\ run = 1
    /\ prevStatus = None
    /\ FreshLocals
    /\ DeployIdle
    /\ ProvisionIdle
    /\ EndpointsIdle
    /\ FunctionsIdle
    /\ WorkerIdle
    /\ WorkflowsIdle

NextDeprovision ==
    \/ deprovision_environment
    \/ DeprovisionAgain

SpecDeprovision == InitDeprovision /\ [][NextDeprovision]_vars

---------------------------------------------------------------------------
\* The deployment workflow: DeploymentService.deploy (deployment_service.py)

MaxItems == 1

\* Values of status.ready_replicas / spec.replicas, and lengths of spec.ports:
\* << >> is Python's None (the field is not set), <<n>> the number n.
ReplicaCounts == {<< >>, <<0>>, <<2>>}
PortCounts == {<< >>, <<0>>, <<1>>}

Workloads == [ready_replicas : ReplicaCounts, replicas : ReplicaCounts]
Services == [ports : PortCounts]

ListsOf(S) == UNION { [1..n -> S] : n \in 0..MaxItems }

\* deployment_service.py:741
deployments_to_check == <<"todo-app-be", "todo-app-fe">>

\* "x or 0" (deployment_service.py:627-628, 654-655)
OrZero(x) == IF x = << >> THEN 0 ELSE x[1]

\* Variant: equal counts are enough, zero desired replicas included.
WorkloadCheck_EqualCountsOnly(kind, w) ==
    LET ready_replicas == OrZero(w.ready_replicas)
        replicas       == OrZero(w.replicas)
        ready          == ready_replicas = replicas
    IN  [ resource_type |-> kind,
          status        |-> IF ready THEN "ready" ELSE "not-ready",
          ready         |-> ready,
          message       |-> <<ready_replicas, replicas>> ]

\* deployment_service.py:626-645 and 653-668: the record of one deployment or
\* stateful set.
WorkloadCheck(kind, w) ==
    LET ready_replicas == OrZero(w.ready_replicas)
        replicas       == OrZero(w.replicas)
        ready          == ready_replicas = replicas /\ replicas > 0
    IN  [ resource_type |-> kind,
          status        |-> IF ready THEN "ready" ELSE "not-ready",
          ready         |-> ready,
          message       |-> <<ready_replicas, replicas>> ]

\* deployment_service.py:676-689: the record of one service.
ServiceCheck(svc) ==
    LET ports == OrZero(svc.ports)
        ready == ports > 0
    IN  [ resource_type |-> "service",
          status        |-> IF ready THEN "ready" ELSE "not-ready",
          ready         |-> ready,
          message       |-> <<ports>> ]

\* deployment_service.py:706-714: the synthetic record.
FailedHealthCheck ==
    [ resource_type |-> "cluster", status |-> "failed", ready |-> FALSE,
      message |-> << >> ]

\* models/requests.py:30-33
RequestNamespace == NamespaceFor(branch_name)

\* Variant: every namespace gets a nip.io host, with the prefix removed when
\* it is there.
GenerateDeploymentUrl_AlwaysNip(namespace) ==
    <<"h","t","t","p","s",":","/","/">>
        \o (IF Len(namespace) >= 8
               /\ SubSeq(namespace, 1, 8) = <<"f","e","a","t","u","r","e","-">>
            THEN SubSeq(namespace, 9, Len(namespace))
            ELSE namespace)
        \o <<".","2","3",".","9","8",".","1","0","1",".","2","3",".","n","i","p",".","i","o">>

\* deployment_service.py:836-846
GenerateDeploymentUrl(namespace) ==
    IF Len(namespace) >= 8 /\ SubSeq(namespace, 1, 8) = <<"f","e","a","t","u","r","e","-">>
    THEN <<"h","t","t","p","s",":","/","/">>
            \o SubSeq(namespace, 9, Len(namespace))
            \o <<".","2","3",".","9","8",".","1","0","1",".","2","3",".","n","i","p",".","i","o">>
    ELSE <<"h","t","t","p","s",":","/","/">> \o namespace
            \o <<".","k","u","b","e","m","o","o","c",".","d","e","v">>

DeployFrame == UNCHANGED <<dvars, commit_sha, pvars, xvars>>

\* deployment_service.py:270-290: the except clause of deploy.
DeployFails(exc) ==
    /\ response' = [ returned |-> TRUE, success |-> FALSE,
                     namespace |-> RequestNamespace,
                     deployment_url |-> None,
                     health_checks |-> << >>,
                     deployed_resources |-> << >>,
                     error_details |-> exc ]
    /\ y_pc' = "done"

\* deployment_service.py:207-212, 292-328: nothing is verified yet, the loop
\* body only logs.
DP_VerifyAcrImages ==
    /\ y_pc = "verify"
    /\ y_pc' = "download"
    /\ UNCHANGED <<y_calls, tempKubeconfigs, k8s_client, kustomization, rolloutIdx,
                   deployed_resources, health_checks, response>>
    /\ DeployFrame

\* deployment_service.py:214-220, 330-391
DP_DownloadManifests ==
    /\ y_pc = "download"
    /\ \E answer \in {"ok", "error"} :
          /\ y_calls' = Append(y_calls, Call("download_manifests", answer))
          /\ IF answer = "ok"
             THEN /\ y_pc' = "configure"
                  /\ UNCHANGED response
             ELSE DeployFails("download_manifests")
    /\ UNCHANGED <<tempKubeconfigs, k8s_client, kustomization, rolloutIdx,
                   deployed_resources, health_checks>>
    /\ DeployFrame

\* _write_kubeconfig_to_temp (deployment_service.py:502-519): a failed
\* credential request writes no file.
WriteKubeconfigToTemp(answer) ==
    /\ y_calls' = Append(y_calls, Call("list_cluster_user_credentials", answer))
    /\ tempKubeconfigs' = IF answer = "ok" THEN tempKubeconfigs + 1 ELSE tempKubeconfigs

\* deployment_service.py:393-399
DP_ConfigureWriteKubeconfig ==
    /\ y_pc = "configure"
    /\ \E answer \in {"ok", "error"} :
          /\ WriteKubeconfigToTemp(answer)
          /\ IF answer = "ok"
             THEN /\ y_pc' = "configure_load"
                  /\ UNCHANGED response
             ELSE DeployFails("list_cluster_user_credentials")
    /\ UNCHANGED <<k8s_client, kustomization, rolloutIdx, deployed_resources, health_checks>>
    /\ DeployFrame

\* Variant: a failed load of the kubeconfig is ignored and the workflow goes on
\* to the apply step.
DP_ConfigureLoadKubeConfig_GoesOn ==
    /\ y_pc = "configure_load"
    /\ \E answer \in {"ok", "error"} :
          /\ y_calls' = Append(y_calls, Call("load_kube_config", answer))
          /\ k8s_client' = (answer = "ok")
          /\ tempKubeconfigs' = tempKubeconfigs - 1
          /\ y_pc' = "rewrite"
          /\ UNCHANGED response
    /\ UNCHANGED <<kustomization, rolloutIdx, deployed_resources, health_checks>>
    /\ DeployFrame

\* deployment_service.py:401-421: the file is unlinked only after a
\* successful load.
DP_ConfigureLoadKubeConfig ==
    /\ y_pc = "configure_load"
    /\ \E answer \in {"ok", "error"} :
          /\ y_calls' = Append(y_calls, Call("load_kube_config", answer))
          /\ IF answer = "ok"
             THEN /\ k8s_client' = TRUE
                  /\ tempKubeconfigs' = tempKubeconfigs - 1
                  /\ y_pc' = "rewrite"
                  /\ UNCHANGED response
             ELSE /\ UNCHANGED <<k8s_client, tempKubeconfigs>>
                  /\ DeployFails("load_kube_config")
    /\ UNCHANGED <<kustomization, rolloutIdx, deployed_resources, health_checks>>
    /\ DeployFrame


\* models/requests.py:35-38
ImageTagSuffix == branch_name \o <<"-">> \o commit_sha

\* The placeholders of the overlay (deployment_service.py:440-459).
NamespacePlaceholder == <<"n","a","m","e","s","p","a","c","e",":"," ","f","e","a","t","u","r","e","-","B","R","A","N","C","H","_","N","A","M","E">>
HostPlaceholder == <<"B","R","A","N","C","H","_","N","A","M","E",".","2","3",".","9","8",".","1","0","1",".","2","3",".","n","i","p",".","i","o">>
DatabasePlaceholder == <<"B","R","A","N","C","H","_","N","A","M","E","_","D","B">>
TagPlaceholder == <<"n","e","w","T","a","g",":"," ","l","a","t","e","s","t">>

\* Variant: the database placeholder gets the branch name as it is, hyphens
\* included.
RewriteKustomization_KeepsHyphens(text, branch, namespace, image_tag_suffix) ==
    LET t1 == Replace(text, NamespacePlaceholder, <<"n","a","m","e","s","p","a","c","e",":"," ">> \o namespace)
        t2 == Replace(t1, HostPlaceholder, branch \o <<".","2","3",".","9","8",".","1","0","1",".","2","3",".","n","i","p",".","i","o">>)
        t3 == Replace(t2, DatabasePlaceholder, branch)
        t4 == Replace(t3, TagPlaceholder, <<"n","e","w","T","a","g",":"," ">> \o image_tag_suffix)
    IN  t4

\* deployment_service.py:437-459: the four replacements, each applied to the
\* result of the one before.
RewriteKustomization(text, branch, namespace, image_tag_suffix) ==
    LET t1 == Replace(text, NamespacePlaceholder, <<"n","a","m","e","s","p","a","c","e",":"," ">> \o namespace)
        t2 == Replace(t1, HostPlaceholder, branch \o <<".","2","3",".","9","8",".","1","0","1",".","2","3",".","n","i","p",".","i","o">>)
        t3 == Replace(t2, DatabasePlaceholder, SanitizedDbName(branch))
        t4 == Replace(t3, TagPlaceholder, <<"n","e","w","T","a","g",":"," ">> \o image_tag_suffix)
    IN  t4

\* The kustomization.yaml of the downloaded overlay, reduced to a database
\* line and an image tag line.
OverlayTemplate == <<"B","R","A","N","C","H","_","N","A","M","E","_","D","B","\n","n","e","w","T","a","g",":"," ","l","a","t","e","s","t","\n">>

\* deployment_service.py:434-464: the overlay's kustomization file, when it
\* exists, is read, substituted and written back.
DP_RewriteKustomization ==
    /\ y_pc = "rewrite"
    /\ IF ~kustomization.exists
       THEN /\ y_pc' = "apply_kubeconfig"
            /\ UNCHANGED <<y_calls, kustomization, response>>
       ELSE \E answer \in {"ok", "error"} :
              /\ y_calls' = Append(y_calls, Call("rewrite_kustomization", answer))
              /\ IF answer = "ok"
                 THEN /\ kustomization' =
                            [ exists |-> TRUE,
                              text |-> RewriteKustomization(kustomization.text, branch_name,
                                                            RequestNamespace, ImageTagSuffix) ]
                      /\ y_pc' = "apply_kubeconfig"
                      /\ UNCHANGED response
                 ELSE /\ UNCHANGED kustomization
                      /\ DeployFails("rewrite_kustomization")
    /\ UNCHANGED <<tempKubeconfigs, k8s_client, rolloutIdx, deployed_resources, health_checks>>
    /\ DeployFrame

\* deployment_service.py:466-467
DP_ApplyWriteKubeconfig ==
    /\ y_pc = "apply_kubeconfig"
    /\ \E answer \in {"ok", "error"} :
          /\ WriteKubeconfigToTemp(answer)
          /\ IF answer = "ok"
             THEN /\ y_pc' = "kustomize_build"
                  /\ UNCHANGED response
             ELSE DeployFails("list_cluster_user_credentials")
    /\ UNCHANGED <<k8s_client, kustomization, rolloutIdx, deployed_resources, health_checks>>
    /\ DeployFrame

\* deployment_service.py:527-540, 582-602: kustomize build; a non-zero exit or
\* a timeout raises, and _deploy_to_aks re-raises (479-488) without unlinking.
DP_KustomizeBuild ==
    /\ y_pc = "kustomize_build"
    /\ \E answer \in {"ok", "nonzero", "timeout"} :
          /\ y_calls' = Append(y_calls, Call("kustomize_build", answer))
          /\ IF answer = "ok"
             THEN /\ y_pc' = "kubectl_apply"
                  /\ UNCHANGED response
             ELSE DeployFails("kustomize_build")
    /\ UNCHANGED <<tempKubeconfigs, k8s_client, kustomization, rolloutIdx,
                   deployed_resources, health_checks>>
    /\ DeployFrame

\* What kubectl apply can write to its standard output: nothing, or one line
\* for each resource with a warning line between them.
ApplyOutputs ==
    { << >>,
      <<"n","s","/","a"," ","u","n","c","h","a","n","g","e","d","\n","W","a","r","n","i","n","g",":"," ","o","l","d","\n","s","v","c","/","b"," ","c","o","n","f","i","g","u","r","e","d","\n">> }

\* deployment_service.py:565: the line holds " created", " configured" or
\* " unchanged" somewhere.
LineMatches(line) ==
    \/ Contains(line, <<" ","c","r","e","a","t","e","d">>)
    \/ Contains(line, <<" ","c","o","n","f","i","g","u","r","e","d">>)
    \/ Contains(line, <<" ","u","n","c","h","a","n","g","e","d">>)

\* deployment_service.py:562-567: the loop over the lines.
RECURSIVE ResourcesOf(_)
ResourcesOf(lines) ==
    IF lines = << >> THEN << >>
    ELSE (IF Strip(Head(lines)) # << >> /\ LineMatches(Head(lines))
          THEN <<FirstToken(Head(lines))>>
          ELSE << >>)
            \o ResourcesOf(Tail(lines))

\* deployment_service.py:560-569: the first token of every line of
\* stdout.strip().split('\n') that is not blank and matches.
ParseApplyOutput(stdout) == ResourcesOf(Split(Strip(stdout), "\n"))

\* deployment_service.py:542-580, then 475-477 (unlink) and 490-500.
DP_KubectlApply ==
    /\ y_pc = "kubectl_apply"
    /\ \E answer \in {"ok", "nonzero", "timeout"} :
          /\ y_calls' = Append(y_calls, Call("kubectl_apply", answer))
          /\ IF answer = "ok"
             THEN /\ \E out \in ApplyOutputs :
                        deployed_resources' = ParseApplyOutput(out)
                  /\ tempKubeconfigs' = tempKubeconfigs - 1
                  /\ y_pc' = "health_kubeconfig"
                  /\ UNCHANGED response
             ELSE /\ UNCHANGED <<deployed_resources, tempKubeconfigs>>
                  /\ DeployFails("kubectl_apply")
    /\ UNCHANGED <<k8s_client, kustomization, rolloutIdx, health_checks>>
    /\ DeployFrame

\* Variant: the except clause returns what was collected, even nothing.
HealthChecksFail_NoSyntheticRecord(collected, hasFile) ==
    /\ health_checks' = collected
    /\ tempKubeconfigs' = IF hasFile THEN tempKubeconfigs - 1 ELSE tempKubeconfigs
    /\ y_pc' = "respond"

\* deployment_service.py:693-734: the except clause and the finally block of
\* _perform_health_checks, entered with the records collected so far.
HealthChecksFail(collected, hasFile) ==
    /\ health_checks' = IF collected = << >> THEN <<FailedHealthCheck>> ELSE collected
    /\ tempKubeconfigs' = IF hasFile THEN tempKubeconfigs - 1 ELSE tempKubeconfigs
    /\ y_pc' = "respond"

\* deployment_service.py:610-615
DP_HealthWriteKubeconfig ==
    /\ y_pc = "health_kubeconfig"
    /\ \E answer \in {"ok", "error"} :
          /\ y_calls' = Append(y_calls, Call("list_cluster_user_credentials", answer))
          /\ IF answer = "ok"
             THEN /\ tempKubeconfigs' = tempKubeconfigs + 1
                  /\ y_pc' = "rollouts"
                  /\ rolloutIdx' = 1
                  /\ UNCHANGED health_checks
             ELSE /\ HealthChecksFail(<< >>, FALSE)
                  /\ UNCHANGED rolloutIdx
    /\ UNCHANGED <<k8s_client, kustomization, deployed_resources, response>>
    /\ DeployFrame

\* Variant: a rollout wait that does not answer ok ends the health checks.
DP_WaitForRollout_AbortsOnFailure ==
    /\ y_pc = "rollouts"
    /\ rolloutIdx <= Len(deployments_to_check)
    /\ \E answer \in {"ok", "nonzero", "timeout", "error"} :
          /\ y_calls' = Append(y_calls, Call("rollout_status deployment/"
                                                \o deployments_to_check[rolloutIdx], answer))
          /\ IF answer = "ok"
             THEN /\ rolloutIdx' = rolloutIdx + 1
                  /\ UNCHANGED <<y_pc, tempKubeconfigs, health_checks>>
             ELSE /\ HealthChecksFail(health_checks, TRUE)
                  /\ UNCHANGED rolloutIdx
    /\ UNCHANGED <<k8s_client, kustomization, deployed_resources, response>>
    /\ DeployFrame

\* deployment_service.py:743-772: one iteration; every outcome is only logged.
DP_WaitForRollout ==
    /\ y_pc = "rollouts"
    /\ rolloutIdx <= Len(deployments_to_check)
    /\ \E answer \in {"ok", "nonzero", "timeout", "error"} :
          y_calls' = Append(y_calls, Call("rollout_status deployment/"
                                             \o deployments_to_check[rolloutIdx], answer))
    /\ rolloutIdx' = rolloutIdx + 1
    /\ UNCHANGED <<y_pc, tempKubeconfigs, k8s_client, kustomization, deployed_resources,
                   health_checks, response>>
    /\ DeployFrame


MapSeq(Op(_), seq) == [i \in DOMAIN seq |-> Op(seq[i])]

DeploymentCheck(w) == WorkloadCheck("deployment", w)
StatefulSetCheck(w) == WorkloadCheck("statefulset", w)

\* deployment_service.py:623-648: the rollout waits are over; list the
\* deployments and record each.  (_debug_deployment_issues, called for a
\* deployment that is not ready, only logs and swallows every exception.)
DP_ListDeployments ==
    /\ y_pc = "rollouts"
    /\ rolloutIdx > Len(deployments_to_check)
    /\ \E answer \in {"ok", "error"} :
          /\ y_calls' = Append(y_calls, Call("list_namespaced_deployment", answer))
          /\ IF answer = "ok"
             THEN /\ \E items \in ListsOf(Workloads) :
                        health_checks' = health_checks \o MapSeq(DeploymentCheck, items)
                  /\ y_pc' = "statefulsets"
                  /\ UNCHANGED tempKubeconfigs
             ELSE HealthChecksFail(health_checks, TRUE)
    /\ UNCHANGED <<k8s_client, kustomization, rolloutIdx, deployed_resources, response>>
    /\ DeployFrame

\* deployment_service.py:650-671
DP_ListStatefulSets ==
    /\ y_pc = "statefulsets"
    /\ \E answer \in {"ok", "error"} :
          /\ y_calls' = Append(y_calls, Call("list_namespaced_stateful_set", answer))
          /\ IF answer = "ok"
             THEN /\ \E items \in ListsOf(Workloads) :
                        health_checks' = health_checks \o MapSeq(StatefulSetCheck, items)
                  /\ y_pc' = "services"
                  /\ UNCHANGED tempKubeconfigs
             ELSE HealthChecksFail(health_checks, TRUE)
    /\ UNCHANGED <<k8s_client, kustomization, rolloutIdx, deployed_resources, response>>
    /\ DeployFrame

\* deployment_service.py:673-691, then the finally block 715-722 and the
\* return 724-734.
DP_ListServices ==
    /\ y_pc = "services"
    /\ \E answer \in {"ok", "error"} :
          /\ y_calls' = Append(y_calls, Call("list_namespaced_service", answer))
          /\ IF answer = "ok"
             THEN /\ \E items \in ListsOf(Services) :
                        health_checks' = health_checks \o MapSeq(ServiceCheck, items)
                  /\ tempKubeconfigs' = tempKubeconfigs - 1
                  /\ y_pc' = "respond"
             ELSE HealthChecksFail(health_checks, TRUE)
    /\ UNCHANGED <<k8s_client, kustomization, rolloutIdx, deployed_resources, response>>
    /\ DeployFrame

\* Variant of DP_Respond that gates the overall outcome on readiness: success
\* only when every collected health record is ready.
DP_Respond_RequiresReady ==
    /\ y_pc = "respond"
    /\ response' = [ returned |-> TRUE,
                     success |-> \A i \in DOMAIN health_checks : health_checks[i].ready,
                     namespace |-> RequestNamespace,
                     deployment_url |-> GenerateDeploymentUrl(RequestNamespace),
                     health_checks |-> health_checks,
                     deployed_resources |-> deployed_resources,
                     error_details |-> None ]
    /\ y_pc' = "done"
    /\ UNCHANGED <<y_calls, tempKubeconfigs, k8s_client, kustomization, rolloutIdx,
                   deployed_resources, health_checks>>
    /\ DeployFrame

\* deployment_service.py:237-268: the health checks have returned; the URL is
\* generated and the successful response is built.
DP_Respond ==
    /\ y_pc = "respond"
    /\ response' = [ returned |-> TRUE, success |-> TRUE,
                     namespace |-> RequestNamespace,
                     deployment_url |-> GenerateDeploymentUrl(RequestNamespace),
                     health_checks |-> health_checks,
                     deployed_resources |-> deployed_resources,
                     error_details |-> None ]
    /\ y_pc' = "done"
    /\ UNCHANGED <<y_calls, tempKubeconfigs, k8s_client, kustomization, rolloutIdx,
                   deployed_resources, health_checks>>
    /\ DeployFrame

\* deployment_service.py:604-734
perform_health_checks ==
    \/ DP_HealthWriteKubeconfig
    \/ DP_WaitForRollout
    \/ DP_ListDeployments
    \/ DP_ListStatefulSets
    \/ DP_ListServices

\* deployment_service.py:190-290
deploy ==
    \/ DP_VerifyAcrImages
    \/ DP_DownloadManifests
    \/ DP_ConfigureWriteKubeconfig
    \/ DP_ConfigureLoadKubeConfig
    \/ DP_RewriteKustomization
    \/ DP_ApplyWriteKubeconfig
    \/ DP_KustomizeBuild
    \/ DP_KubectlApply
    \/ perform_health_checks
    \/ DP_Respond

CommitShas == { <<"a","b","c","1","2","3">> }

\* A validated DeploymentRequest arrives (function_app.py); the downloaded
\* manifests may or may not hold the feature overlay's kustomization file.
InitDeploy ==
    /\ entry = "deploy"
    /\ branch_name \in Branches
    /\ commit_sha \in CommitShas
    /\ kustomization \in {NoKustomization, [exists |-> TRUE, text |-> OverlayTemplate]}
    /\ y_pc = "verify"
    /\ y_calls = << >>
    /\ tempKubeconfigs = 0
    /\ k8s_client = FALSE
    /\ rolloutIdx = 0
    /\ deployed_resources = << >>
    /\ health_checks = << >>
    /\ response = [returned |-> FALSE]
    \* the deprovisioning workflow is not running
    /\ namespace_name = RequestNamespace
    /\ nsExists \in BOOLEAN
    /\ cronjobs = << >>
    /\ credExists = [c \in {"database_credential", "keyvault_credential"} |-> FALSE]
    /\ dbExists = FALSE
    /\ adminPassword = TRUE
    /\ initial = World
    /\ run = 1
    /\ prevStatus = None
    /\ pc = "idle"
    /\ calls = << >>
    /\ steps = << >>
    /\ kubeconfigFile = FALSE
    /\ connOpen = FALSE
    /\ cronIdx = 0
    /\ suspended_count = 0
    /\ credLocal = [database_credential |-> FALSE, keyvault_credential |-> FALSE,
                    errors |-> << >>]
    /\ nsRet = NoRet
    /\ credRet = NoRet
    /\ dbRet = NoRet
    /\ operations = InitialOperations
    /\ timing = << >>
    /\ errors = << >>
    /\ result = NoResult
    /\ ProvisionIdle
    /\ EndpointsIdle
    /\ FunctionsIdle
    /\ WorkerIdle
    /\ WorkflowsIdle

NextDeploy == deploy

SpecDeploy == InitDeploy /\ [][NextDeploy]_vars

---------------------------------------------------------------------------
\* The provisioning workflow: the HTTP handler (provisioning-function/
\* function_app.py) and ProvisioningService (services/provisioning_service.py)

\* One entry of the provisioning call log: the call, its answer and the name
\* of the resource it was issued for.
PCall(name, answer, target) == [call |-> name, answer |-> answer, target |-> target]

\* provisioning_service.py:267
CredentialName(b) == <<"c","r","e","d","-">> \o b

PWorld == [database |-> p_dbExists, credential |-> p_credExists, namespace |-> p_nsExists]

\* What no step of one provisioning run changes.
ProvisionFrame ==
    UNCHANGED <<dvars, yvars, xvars, request, settings_ok, oidc_issuer, p_initial, p_run,
                p_prevStatus>>

\* Variant: the error result reports which resources the run created.
ProvisionFails_ReportsCreated(exc) ==
    /\ p_result' = [ returned           |-> TRUE,
                     status             |-> "error",
                     branch_name        |-> branch_name,
                     error              |-> exc,
                     database_created   |-> database_created,
                     credential_created |-> credential_created,
                     namespace_created  |-> namespace_created,
                     timing             |-> {"total_duration_seconds"} ]
    /\ p_pc' = "respond"

\* provisioning_service.py:599-623: the except clause of provision_environment.
ProvisionFails(exc) ==
    /\ p_result' = [ returned    |-> TRUE,
                     status      |-> "error",
                     branch_name |-> branch_name,
                     error       |-> exc,
                     timing      |-> {"total_duration_seconds"} ]
    /\ p_pc' = "respond"

\* provisioning_service.py:571-586, 624-625: the result of a run whose three
\* steps returned.
ProvisionSucceeds(dc, cc, nc) ==
    /\ p_result' = [ returned           |-> TRUE,
                     status             |-> "success",
                     branch_name        |-> branch_name,
                     database_created   |-> dc,
                     credential_created |-> cc,
                     namespace_created  |-> nc,
                     message            |-> "provisioned successfully",
                     timing             |-> {"total_duration_seconds",
                                             "database_duration_seconds",
                                             "credential_duration_seconds",
                                             "namespace_duration_seconds"} ]
    /\ p_pc' = "respond"

\* function_app.py:52-112: the body is parsed and validated.
P_ParseRequest ==
    /\ p_pc = "receive"
    /\ IF request = "valid"
       THEN /\ p_pc' = "settings"
            /\ UNCHANGED http_response
       ELSE /\ http_response' =
                  [ sent |-> TRUE, status_code |-> 400,
                    body |-> [ status |-> "error",
                               message |-> IF request = "no_body"
                                           THEN "Request body is required"
                                           ELSE "Invalid request",
                               correlation_id |-> "uuid" ] ]
            /\ p_pc' = "done"
    /\ UNCHANGED <<p_dbExists, p_credExists, p_nsExists, p_calls, p_conn, p_kubeconfigFile,
                   database_created, credential_created, namespace_created, p_result>>
    /\ ProvisionFrame

\* function_app.py:123-124 with the except clauses 180-223.  Settings() raises
\* a validation error (a ValueError) when the environment is incomplete;
\* ProvisioningService.__init__ reads settings.managed_identity_client_id
\* (provisioning_service.py:28-30) and raises AttributeError when the settings
\* object has no such attribute.
P_InitServices ==
    /\ p_pc = "settings"
    /\ \E answer \in {"ok", "validation_error"} :
          IF answer = "validation_error"
          THEN /\ http_response' =
                     [ sent |-> TRUE, status_code |-> 400,
                       body |-> [ status |-> "error", message |-> "ValueError",
                                  correlation_id |-> "uuid" ] ]
               /\ p_pc' = "done"
          ELSE IF ~settings_ok
          THEN /\ http_response' =
                     [ sent |-> TRUE, status_code |-> 500,
                       body |-> [ status |-> "error", message |-> "Internal server error",
                                  correlation_id |-> "uuid" ] ]
               /\ p_pc' = "done"
          ELSE /\ p_pc' = "db_password"
               /\ UNCHANGED http_response
    /\ UNCHANGED <<p_dbExists, p_credExists, p_nsExists, p_calls, p_conn, p_kubeconfigFile,
                   database_created, credential_created, namespace_created, p_result>>
    /\ ProvisionFrame

\* provisioning_service.py:75-85
P_PasswordCheck ==
    /\ p_pc = "db_password"
    /\ IF adminPassword
       THEN /\ p_pc' = "db_connect"
            /\ UNCHANGED p_result
       ELSE ProvisionFails("ValueError")
    /\ UNCHANGED <<p_dbExists, p_credExists, p_nsExists, p_calls, p_conn, p_kubeconfigFile,
                   database_created, credential_created, namespace_created, http_response>>
    /\ ProvisionFrame

\* provisioning_service.py:105-112; a failure is re-raised by 154-189.
P_Connect ==
    /\ p_pc = "db_connect"
    /\ \E answer \in {"ok", "error"} :
          /\ p_calls' = Append(p_calls, PCall("connect", answer, <<"postgres">>))
          /\ IF answer = "ok"
             THEN /\ p_conn' = TRUE
                  /\ p_pc' = "db_create"
                  /\ UNCHANGED p_result
             ELSE /\ UNCHANGED p_conn
                  /\ ProvisionFails("connect")
    /\ UNCHANGED <<p_dbExists, p_credExists, p_nsExists, p_kubeconfigFile,
                   database_created, credential_created, namespace_created, http_response>>
    /\ ProvisionFrame

\* Variant: an existing database is a failure like any other.
P_CreateDatabase_ExistsIsError ==
    /\ p_pc = "db_create"
    /\ \E answer \in (IF p_dbExists THEN {"already_exists", "error"} ELSE {"ok", "error"}) :
          /\ p_calls' = Append(p_calls, PCall("CREATE DATABASE", answer,
                                              SanitizedDbName(branch_name)))
          /\ IF answer = "ok"
             THEN /\ p_dbExists' = TRUE
                  /\ p_conn' = FALSE
                  /\ database_created' = TRUE
                  /\ p_pc' = "oidc"
                  /\ UNCHANGED p_result
             ELSE /\ UNCHANGED <<p_dbExists, p_conn, database_created>>
                  /\ ProvisionFails("CREATE DATABASE")
    /\ UNCHANGED <<p_credExists, p_nsExists, p_kubeconfigFile, credential_created,
                   namespace_created, http_response>>
    /\ ProvisionFrame

\* provisioning_service.py:122-191: CREATE DATABASE on the sanitized name.  The
\* connection is closed at line 145 only; an "already exists" error returns
\* True (154-165), any other error is re-raised (167-189).
P_CreateDatabase ==
    /\ p_pc = "db_create"
    /\ \E answer \in (IF p_dbExists THEN {"already_exists", "error"} ELSE {"ok", "error"}) :
          /\ p_calls' = Append(p_calls, PCall("CREATE DATABASE", answer,
                                              SanitizedDbName(branch_name)))
          /\ CASE answer = "ok" ->
                    /\ p_dbExists' = TRUE
                    /\ p_conn' = FALSE
                    /\ database_created' = TRUE
                    /\ p_pc' = "oidc"
                    /\ UNCHANGED p_result
               [] answer = "already_exists" ->
                    /\ database_created' = TRUE
                    /\ p_pc' = "oidc"
                    /\ UNCHANGED <<p_dbExists, p_conn, p_result>>
               [] OTHER ->
                    /\ UNCHANGED <<p_dbExists, p_conn, database_created>>
                    /\ ProvisionFails("CREATE DATABASE")
    /\ UNCHANGED <<p_credExists, p_nsExists, p_kubeconfigFile, credential_created,
                   namespace_created, http_response>>
    /\ ProvisionFrame

\* provisioning_service.py:62-191
create_database ==
    \/ P_PasswordCheck
    \/ P_Connect
    \/ P_CreateDatabase

\* Variant: a cluster without an OIDC issuer does not stop the step.
P_ValidateOidc_IssuerOptional ==
    /\ p_pc = "oidc"
    /\ \E answer \in {"ok", "error"} :
          /\ p_calls' = Append(p_calls, PCall("managed_clusters.get", answer, <<"aks">>))
          /\ IF answer = "ok"
             THEN /\ p_pc' = "identity_client"
                  /\ UNCHANGED p_result
             ELSE ProvisionFails("managed_clusters.get")
    /\ UNCHANGED <<p_dbExists, p_credExists, p_nsExists, p_conn, p_kubeconfigFile,
                   database_created, credential_created, namespace_created, http_response>>
    /\ ProvisionFrame

\* provisioning_service.py:255 and 193-219: _validate_oidc_configuration; the
\* ValueError of a missing issuer is re-raised by 306-316.
P_ValidateOidc ==
    /\ p_pc = "oidc"
    /\ \E answer \in {"ok", "error"} :
          /\ p_calls' = Append(p_calls, PCall("managed_clusters.get", answer, <<"aks">>))
          /\ IF answer = "ok"
             THEN IF oidc_issuer
                  THEN /\ p_pc' = "identity_client"
                       /\ UNCHANGED p_result
                  ELSE ProvisionFails("ValueError")
             ELSE ProvisionFails("managed_clusters.get")
    /\ UNCHANGED <<p_dbExists, p_credExists, p_nsExists, p_conn, p_kubeconfigFile,
                   database_created, credential_created, namespace_created, http_response>>
    /\ ProvisionFrame

\* provisioning_service.py:266 (get_identity_client, 46-58)
P_GetIdentityClient ==
    /\ p_pc = "identity_client"
    /\ \E answer \in {"ok", "error"} :
          /\ p_calls' = Append(p_calls, PCall("get_identity_client", answer, << >>))
          /\ IF answer = "ok"
             THEN /\ p_pc' = "cred_create"
                  /\ UNCHANGED p_result
             ELSE ProvisionFails("get_identity_client")
    /\ UNCHANGED <<p_dbExists, p_credExists, p_nsExists, p_conn, p_kubeconfigFile,
                   database_created, credential_created, namespace_created, http_response>>
    /\ ProvisionFrame

\* provisioning_service.py:281-331: create_or_update of cred-{branch}.
P_CreateOrUpdateCredential ==
    /\ p_pc = "cred_create"
    /\ \E answer \in {"ok", "error"} :
          /\ p_calls' = Append(p_calls, PCall("create_or_update", answer,
                                              CredentialName(branch_name)))
          /\ IF answer = "ok"
             THEN /\ p_credExists' = TRUE
                  /\ credential_created' = TRUE
                  /\ p_pc' = "ns_credentials"
                  /\ UNCHANGED p_result
             ELSE /\ UNCHANGED <<p_credExists, credential_created>>
                  /\ ProvisionFails("create_or_update")
    /\ UNCHANGED <<p_dbExists, p_nsExists, p_conn, p_kubeconfigFile,
                   database_created, namespace_created, http_response>>
    /\ ProvisionFrame

\* provisioning_service.py:221-331
create_federated_credential ==
    \/ P_ValidateOidc
    \/ P_GetIdentityClient
    \/ P_CreateOrUpdateCredential

\* provisioning_service.py:354-368: the admin credentials of the cluster; an
\* answer without kubeconfigs raises.
P_ListClusterAdminCredentials ==
    /\ p_pc = "ns_credentials"
    /\ \E answer \in {"ok", "empty", "error"} :
          /\ p_calls' = Append(p_calls, PCall("list_cluster_admin_credentials", answer,
                                              <<"aks">>))
          /\ IF answer = "ok"
             THEN /\ p_pc' = "ns_kubeconfig"
                  /\ UNCHANGED p_result
             ELSE ProvisionFails("list_cluster_admin_credentials")
    /\ UNCHANGED <<p_dbExists, p_credExists, p_nsExists, p_conn, p_kubeconfigFile,
                   database_created, credential_created, namespace_created, http_response>>
    /\ ProvisionFrame

\* provisioning_service.py:374-379
P_WriteKubeconfig ==
    /\ p_pc = "ns_kubeconfig"
    /\ p_kubeconfigFile' = TRUE
    /\ p_pc' = "ns_load"
    /\ UNCHANGED <<p_dbExists, p_credExists, p_nsExists, p_calls, p_conn,
                   database_created, credential_created, namespace_created, p_result,
                   http_response>>
    /\ ProvisionFrame

\* provisioning_service.py:381-387; a failure passes the finally block 442-445.
P_LoadKubeConfig ==
    /\ p_pc = "ns_load"
    /\ \E answer \in {"ok", "error"} :
          /\ p_calls' = Append(p_calls, PCall("load_kube_config", answer, << >>))
          /\ IF answer = "ok"
             THEN /\ p_pc' = "ns_read"
                  /\ UNCHANGED <<p_kubeconfigFile, p_result>>
             ELSE /\ p_kubeconfigFile' = FALSE
                  /\ ProvisionFails("load_kube_config")
    /\ UNCHANGED <<p_dbExists, p_credExists, p_nsExists, p_conn,
                   database_created, credential_created, namespace_created, http_response>>
    /\ ProvisionFrame

\* Variant: the early return of an existing namespace skips the cleanup.
P_ReadNamespace_LeavesFile ==
    /\ p_pc = "ns_read"
    /\ \E answer \in (IF p_nsExists THEN {"ok", "error"} ELSE {"404", "error"}) :
          /\ p_calls' = Append(p_calls, PCall("read_namespace", answer, branch_name))
          /\ CASE answer = "ok" ->
                    /\ namespace_created' = TRUE
                    /\ UNCHANGED p_kubeconfigFile
                    /\ ProvisionSucceeds(database_created, credential_created, TRUE)
               [] answer = "404" ->
                    /\ p_pc' = "ns_create"
                    /\ UNCHANGED <<namespace_created, p_kubeconfigFile, p_result>>
               [] OTHER ->
                    /\ p_kubeconfigFile' = FALSE
                    /\ UNCHANGED namespace_created
                    /\ ProvisionFails("read_namespace")
    /\ UNCHANGED <<p_dbExists, p_credExists, p_nsExists, p_conn,
                   database_created, credential_created, http_response>>
    /\ ProvisionFrame

\* provisioning_service.py:389-408: the existence check on the namespace named
\* after the branch.  An existing namespace returns True at once; 404 goes on
\* to the creation; any other failure is re-raised.  Every exit but 404 passes
\* the finally block 442-445.
P_ReadNamespace ==
    /\ p_pc = "ns_read"
    /\ \E answer \in (IF p_nsExists THEN {"ok", "error"} ELSE {"404", "error"}) :
          /\ p_calls' = Append(p_calls, PCall("read_namespace", answer, branch_name))
          /\ CASE answer = "ok" ->
                    /\ namespace_created' = TRUE
                    /\ p_kubeconfigFile' = FALSE
                    /\ ProvisionSucceeds(database_created, credential_created, TRUE)
               [] answer = "404" ->
                    /\ p_pc' = "ns_create"
                    /\ UNCHANGED <<namespace_created, p_kubeconfigFile, p_result>>
               [] OTHER ->
                    /\ p_kubeconfigFile' = FALSE
                    /\ UNCHANGED namespace_created
                    /\ ProvisionFails("read_namespace")
    /\ UNCHANGED <<p_dbExists, p_credExists, p_nsExists, p_conn,
                   database_created, credential_created, http_response>>
    /\ ProvisionFrame

\* Variant: a failed creation leaves provision_environment as an exception,
\* which the handler answers with 500.
P_CreateNamespace_Propagates ==
    /\ p_pc = "ns_create"
    /\ \E answer \in {"ok", "error"} :
          /\ p_calls' = Append(p_calls, PCall("create_namespace", answer, branch_name))
          /\ p_kubeconfigFile' = FALSE
          /\ IF answer = "ok"
             THEN /\ p_nsExists' = TRUE
                  /\ namespace_created' = TRUE
                  /\ ProvisionSucceeds(database_created, credential_created, TRUE)
                  /\ UNCHANGED http_response
             ELSE /\ UNCHANGED <<p_nsExists, namespace_created, p_result>>
                  /\ http_response' =
                        [ sent |-> TRUE, status_code |-> 500,
                          body |-> [ status |-> "error",
                                     message |-> "Internal server error",
                                     correlation_id |-> "uuid" ] ]
                  /\ p_pc' = "done"
    /\ UNCHANGED <<p_dbExists, p_credExists, p_conn, database_created, credential_created>>
    /\ ProvisionFrame

\* provisioning_service.py:410-445: the creation, then the finally block.
P_CreateNamespace ==
    /\ p_pc = "ns_create"
    /\ \E answer \in {"ok", "error"} :
          /\ p_calls' = Append(p_calls, PCall("create_namespace", answer, branch_name))
          /\ p_kubeconfigFile' = FALSE
          /\ IF answer = "ok"
             THEN /\ p_nsExists' = TRUE
                  /\ namespace_created' = TRUE
                  /\ ProvisionSucceeds(database_created, credential_created, TRUE)
             ELSE /\ UNCHANGED <<p_nsExists, namespace_created>>
                  /\ ProvisionFails("create_namespace")
    /\ UNCHANGED <<p_dbExists, p_credExists, p_conn, database_created, credential_created,
                   http_response>>
    /\ ProvisionFrame

\* provisioning_service.py:333-471
create_namespace ==
    \/ P_ListClusterAdminCredentials
    \/ P_WriteKubeconfig
    \/ P_LoadKubeConfig
    \/ P_ReadNamespace
    \/ P_CreateNamespace

\* provisioning_service.py:473-625
provision_environment ==
    \/ create_database
    \/ create_federated_credential
    \/ create_namespace

\* function_app.py:144-178: the dictionary gets the correlation id and is
\* sent, whatever its status, with HTTP 200.
P_Respond ==
    /\ p_pc = "respond"
    /\ http_response' =
          [ sent |-> TRUE, status_code |-> 200,
            body |-> [ k \in (DOMAIN p_result \ {"returned"}) \cup {"correlation_id"} |->
                         IF k = "correlation_id" THEN "uuid" ELSE p_result[k] ] ]
    /\ p_pc' = "done"
    /\ UNCHANGED <<p_dbExists, p_credExists, p_nsExists, p_calls, p_conn, p_kubeconfigFile,
                   database_created, credential_created, namespace_created, p_result>>
    /\ ProvisionFrame

\* The caller sends the same valid request again after the previous one was
\* answered: a new ProvisioningService runs against the world the previous run
\* left.
ProvisionAgain ==
    /\ p_pc = "done"
    /\ p_result.returned
    /\ p_run < MaxRuns
    /\ p_run' = p_run + 1
    /\ p_prevStatus' = p_result.status
    /\ p_initial' = PWorld
    /\ p_pc' = "receive"
    /\ p_calls' = << >>
    /\ p_conn' = FALSE
    /\ p_kubeconfigFile' = FALSE
    /\ database_created' = FALSE
    /\ credential_created' = FALSE
    /\ namespace_created' = FALSE
    /\ p_result' = [returned |-> FALSE]
    /\ http_response' = [sent |-> FALSE]
    /\ UNCHANGED <<dvars, yvars, xvars, request, settings_ok, oidc_issuer, p_dbExists,
                   p_credExists, p_nsExists>>

\* No deprovisioning request is being served.
DeprovisionIdle ==
    /\ namespace_name = NamespaceFor(branch_name)
    /\ nsExists = FALSE
    /\ cronjobs = << >>
    /\ credExists = [c \in {"database_credential", "keyvault_credential"} |-> FALSE]
    /\ dbExists = FALSE
    /\ initial = World
    /\ run = 1
    /\ prevStatus = None
    /\ pc = "idle"
    /\ calls = << >>
    /\ steps = << >>
    /\ kubeconfigFile = FALSE
    /\ connOpen = FALSE
    /\ cronIdx = 0
    /\ suspended_count = 0
    /\ credLocal = [database_credential |-> FALSE, keyvault_credential |-> FALSE,
                    errors |-> << >>]
    /\ nsRet = NoRet
    /\ credRet = NoRet
    /\ dbRet = NoRet
    /\ operations = InitialOperations
    /\ timing = << >>
    /\ errors = << >>
    /\ result = NoResult

\* A POST /provision request arrives (function_app.py:20-21) in any state of
\* the database server, the identity service and the cluster.  The settings
\* object either is the Settings of config.py:7-38, which defines no
\* managed_identity_* field, or has the attributes the service reads
\* (tests/test_config.py:19-33).
InitProvision ==
    /\ entry = "provision_environment"
    /\ branch_name \in Branches
    /\ request \in {"no_body", "invalid", "valid"}
    /\ settings_ok \in BOOLEAN
    /\ adminPassword \in BOOLEAN
    /\ p_dbExists \in BOOLEAN
    /\ p_credExists \in BOOLEAN
    /\ p_nsExists \in BOOLEAN
    /\ oidc_issuer \in BOOLEAN
    /\ p_pc = "receive"
    /\ p_calls = << >>
    /\ p_conn = FALSE
    /\ p_kubeconfigFile = FALSE
    /\ database_created = FALSE
    /\ credential_created = FALSE
    /\ namespace_created = FALSE
    /\ p_result = [returned |-> FALSE]
    /\ http_response = [sent |-> FALSE]
    /\ p_initial = PWorld
    /\ p_run = 1
    /\ p_prevStatus = None
    /\ DeprovisionIdle
    /\ DeployIdle
    /\ EndpointsIdle
    /\ FunctionsIdle
    /\ WorkerIdle
    /\ WorkflowsIdle

NextProvision ==
    \/ P_ParseRequest
    \/ P_InitServices
    \/ provision_environment
    \/ P_Respond
    \/ ProvisionAgain

SpecProvision == InitProvision /\ [][NextProvision]_vars

\* Either function that writes a temporary kubeconfig around a namespace
\* operation serves one request.
InitNamespaceFunctions == InitDeprovision \/ InitProvision

NextNamespaceFunctions == NextDeprovision \/ NextProvision

SpecNamespaceFunctions == InitNamespaceFunctions /\ [][NextNamespaceFunctions]_vars

---------------------------------------------------------------------------
\* The HTTP handler of the deployment function: deploy_function
\* (deployment-function/function_app.py:18-61)

\* An HTTP response of deploy_function: the status code, what produced it and
\* (for the two codes that carry it) the DeploymentResponse.
DeployHttp(code, cause) ==
    [ sent |-> TRUE, status_code |-> code, cause |-> cause, result |-> response ]

\* What the body of a POST /deploy can hold:
\*   invalid_json    not JSON: req.get_json() raises ValueError
\*   empty           JSON that is falsy in Python (null, {}, [], "", 0)
\*   not_mapping     a non-empty JSON array, string or number
\*   invalid_fields  an object DeploymentRequest rejects (ValidationError,
\*                   a subclass of ValueError)
\*   valid           an object DeploymentRequest accepts
DeployBodies == {"invalid_json", "empty", "not_mapping", "invalid_fields", "valid"}

\* function_app.py:24-35, 48-61.  req.get_json() raises ValueError for a body
\* that is not JSON; "**req_body" raises TypeError when the body is not a
\* mapping; the model's ValidationError is a ValueError.
DF_ParseRequest ==
    /\ y_pc = "receive"
    /\ CASE y_request = "valid" ->
                /\ y_pc' = "init_service"
                /\ UNCHANGED y_http
         [] y_request = "empty" ->
                /\ y_http' = DeployHttp(400, "missing_body")
                /\ y_pc' = "answered"
         [] y_request \in {"invalid_json", "invalid_fields"} ->
                /\ y_http' = DeployHttp(400, y_request)
                /\ y_pc' = "answered"
         [] y_request = "not_mapping" ->
                /\ y_http' = DeployHttp(500, y_request)
                /\ y_pc' = "answered"
    /\ UNCHANGED <<dvars, commit_sha, y_calls, tempKubeconfigs, k8s_client, kustomization,
                   rolloutIdx, deployed_resources, health_checks, response,
                   pvars, fvars, cvars, wvars, y_request, d_request, d_http>>

\* function_app.py:37-38, 48-61 and deployment_service.py:33-67: the
\* constructor builds the Azure credential and the two management clients and
\* makes sure kustomize and kubectl are installed; whatever it raises reaches
\* the handler, which answers 400 for a ValueError and 500 for anything else.
DF_InitService ==
    /\ y_pc = "init_service"
    /\ \E outcome \in {"ok", "ValueError", "Exception"} :
          CASE outcome = "ok" ->
                  /\ y_pc' = "verify"
                  /\ UNCHANGED y_http
            [] outcome = "ValueError" ->
                  /\ y_http' = DeployHttp(400, "service_init")
                  /\ y_pc' = "answered"
            [] outcome = "Exception" ->
                  /\ y_http' = DeployHttp(500, "service_init")
                  /\ y_pc' = "answered"
    /\ UNCHANGED <<dvars, commit_sha, y_calls, tempKubeconfigs, k8s_client, kustomization,
                   rolloutIdx, deployed_resources, health_checks, response,
                   pvars, fvars, cvars, wvars, y_request, d_request, d_http>>

\* function_app.py:40-46: deploy has returned its DeploymentResponse.
DF_Respond ==
    /\ y_pc = "done"
    /\ y_http' = [ sent |-> TRUE,
                   status_code |-> IF response.success THEN 200 ELSE 500,
                   cause |-> "result",
                   result |-> response ]
    /\ y_pc' = "answered"
    /\ UNCHANGED <<dvars, commit_sha, y_calls, tempKubeconfigs, k8s_client, kustomization,
                   rolloutIdx, deployed_resources, health_checks, response,
                   pvars, fvars, cvars, wvars, y_request, d_request, d_http>>

\* function_app.py:20-61
deploy_function ==
    \/ DF_ParseRequest
    \/ DF_InitService
    \/ deploy
    \/ DF_Respond

\* A POST /deploy request arrives with any body; a valid one carries the
\* branch name and commit sha of the model.
InitDeployEndpoint ==
    /\ entry = "deploy_function"
    /\ branch_name \in Branches
    /\ commit_sha \in CommitShas
    /\ kustomization \in {NoKustomization, [exists |-> TRUE, text |-> OverlayTemplate]}
    /\ y_request \in DeployBodies
    /\ y_http = [sent |-> FALSE]
    /\ y_pc = "receive"
    /\ y_calls = << >>
    /\ tempKubeconfigs = 0
    /\ k8s_client = FALSE
    /\ rolloutIdx = 0
    /\ deployed_resources = << >>
    /\ health_checks = << >>
    /\ response = [returned |-> FALSE]
    /\ d_request = "none"
    /\ d_http = [sent |-> FALSE]
    /\ adminPassword = TRUE
    /\ DeprovisionIdle
    /\ ProvisionIdle
    /\ FunctionsIdle
    /\ WorkerIdle
    /\ WorkflowsIdle

NextDeployEndpoint == deploy_function

SpecDeployEndpoint == InitDeployEndpoint /\ [][NextDeployEndpoint]_vars

---------------------------------------------------------------------------
\* The HTTP handler of the deprovisioning function: deprovision_environment
\* (deprovisioning-function/function_app.py:19-272)

\* What the body of a POST /deprovision can hold (as DeployBodies).
DeprovisionBodies == {"invalid_json", "empty", "not_mapping", "invalid_fields", "valid"}

\* An HTTP response the handler builds itself, without a workflow result.
DeprovisionHttp(code, cause, status) ==
    [ sent |-> TRUE, status_code |-> code, cause |-> cause,
      keys |-> {"status", "message", "correlation_id"},
      body |-> [status |-> status] ]

\* deprovisioning_service.py:874-883: the keys of the result dictionary.
ResultKeys(res) ==
    {"status", "branch_name", "operations", "timing", "message"}
        \cup (IF res.has_errors THEN {"errors"} ELSE {})

HandlerFrame ==
    UNCHANGED <<entry, branch_name, namespace_name, nsExists, cronjobs, credExists,
                dbExists, adminPassword, calls, kubeconfigFile, connOpen, cronIdx,
                suspended_count, credLocal, nsRet, credRet, dbRet, operations, timing,
                errors, result, steps, initial, run, prevStatus,
                yvars, pvars, fvars, cvars, wvars, y_request, y_http, d_request>>

\* function_app.py:51-112, 228-272.  A body that is not JSON makes get_json
\* raise ValueError (400); a falsy body is answered 400; a body that is not a
\* mapping has no keys() for the log call at 74-80 (AttributeError, 500);
\* whatever DeprovisionRequest raises is answered 400.
DH_ParseRequest ==
    /\ pc = "receive"
    /\ CASE d_request = "valid" ->
                /\ pc' = "settings"
                /\ UNCHANGED d_http
         [] d_request = "empty" ->
                /\ d_http' = DeprovisionHttp(400, "missing_body", "error")
                /\ pc' = "answered"
         [] d_request \in {"invalid_json", "invalid_fields"} ->
                /\ d_http' = DeprovisionHttp(400, d_request, "error")
                /\ pc' = "answered"
         [] d_request = "not_mapping" ->
                /\ d_http' = DeprovisionHttp(500, d_request, "error")
                /\ pc' = "answered"
    /\ HandlerFrame

\* function_app.py:123-138
DH_LoadSettings ==
    /\ pc = "settings"
    /\ \E outcome \in {"ok", "error"} :
          IF outcome = "ok"
          THEN /\ pc' = "service_init"
               /\ UNCHANGED d_http
          ELSE /\ d_http' = DeprovisionHttp(500, "settings", "error")
               /\ pc' = "answered"
    /\ HandlerFrame

\* function_app.py:140-172: a constructor failure whose text mentions the
\* credential or authentication is answered 200 with a mock "success" body
\* (keys of 149-160), any other one 500.
DH_InitService ==
    /\ pc = "service_init"
    /\ \E outcome \in {"ok", "authentication_error", "error"} :
          CASE outcome = "ok" ->
                  /\ pc' = "dn_check"
                  /\ UNCHANGED d_http
            [] outcome = "authentication_error" ->
                  /\ d_http' = [ sent |-> TRUE, status_code |-> 200,
                                 cause |-> "local_testing",
                                 keys |-> {"status", "message", "correlation_id",
                                           "database_deleted", "credentials_deleted",
                                           "namespace_deleted", "local_testing"},
                                 body |-> [status |-> "success"] ]
                  /\ pc' = "answered"
            [] outcome = "error" ->
                  /\ d_http' = DeprovisionHttp(500, "service_init", "error")
                  /\ pc' = "answered"
    /\ HandlerFrame

\* Variant: a result whose status is "error" is answered 500.
DH_Respond_ErrorIs500 ==
    /\ pc = "done"
    /\ d_http' = [ sent |-> TRUE,
                   status_code |-> IF result.status = "error" THEN 500 ELSE 200,
                   cause |-> "result",
                   keys |-> ResultKeys(result) \cup {"correlation_id"},
                   body |-> result ]
    /\ pc' = "answered"
    /\ HandlerFrame

\* function_app.py:184-226: the orchestrator has returned its dictionary; the
\* correlation id is added and the dictionary is sent with status 200.
DH_Respond ==
    /\ pc = "done"
    /\ d_http' = [ sent |-> TRUE,
                   status_code |-> 200,
                   cause |-> "result",
                   keys |-> ResultKeys(result) \cup {"correlation_id"},
                   body |-> result ]
    /\ pc' = "answered"
    /\ HandlerFrame

\* function_app.py:19-272
deprovision_handler ==
    \/ DH_ParseRequest
    \/ DH_LoadSettings
    \/ DH_InitService
    \/ deprovision_environment
    \/ DH_Respond

\* A POST /deprovision request arrives with any body, in any state of the
\* cluster, the identity service and the database server.
InitDeprovisionEndpoint ==
    /\ entry = "deprovision_environment"
    /\ branch_name \in Branches
    /\ namespace_name = NamespaceFor(branch_name)
    /\ nsExists \in BOOLEAN
    /\ cronjobs \in (IF nsExists THEN CronJobLists ELSE {<< >>})
    /\ credExists \in [{"database_credential", "keyvault_credential"} -> BOOLEAN]
    /\ dbExists \in BOOLEAN
    /\ adminPassword \in BOOLEAN
    /\ initial = World
    /\ run = 1
    /\ prevStatus = None
    /\ pc = "receive"
    /\ calls = << >>
    /\ steps = << >>
    /\ kubeconfigFile = FALSE
    /\ connOpen = FALSE
    /\ cronIdx = 0
    /\ suspended_count = 0
    /\ credLocal = [database_credential |-> FALSE, keyvault_credential |-> FALSE,
                    errors |-> << >>]
    /\ nsRet = NoRet
    /\ credRet = NoRet
    /\ dbRet = NoRet
    /\ operations = InitialOperations
    /\ timing = << >>
    /\ errors = << >>
    /\ result = NoResult
    /\ d_request \in DeprovisionBodies
    /\ d_http = [sent |-> FALSE]
    /\ y_request = "none"
    /\ y_http = [sent |-> FALSE]
    /\ DeployIdle
    /\ ProvisionIdle
    /\ FunctionsIdle
    /\ WorkerIdle
    /\ WorkflowsIdle

NextDeprovisionEndpoint == deprovision_handler

SpecDeprovisionEndpoint == InitDeprovisionEndpoint /\ [][NextDeprovisionEndpoint]_vars

---------------------------------------------------------------------------
\* Calls of the pure functions: one function is called once on one argument.

\* Characters of the branch names the model constructs requests from: one
\* lowercase letter, one digit, the hyphen, and one character of each kind the
\* validator must reject (uppercase, underscore, period, space, slash, "@",
\* line feed).
NameChars == {"a", "7", "-", "A", "_", ".", " ", "/", "@", "\n"}

\* Names around the length limits of the field and of a namespace, and names
\* of tests/test_models.py; the inputs also hold the protected namespaces.
LongNames ==
    { Repeat("a", n) : n \in {55, 56, 62, 63, 64} }
        \cup { Repeat("a", 62) \o <<"\n">>, Repeat("a", 63) \o <<"\n">>,
                Repeat("a", 62) \o <<"-">>, <<"-">> \o Repeat("a", 62),
                Repeat("a", 54) \o <<"\n">>,
                <<"e","x","-","c","3","-","e","1","1">>, <<"f","e","a","t","u","r","e","-","a","u","t","h">>, <<"F","e","a","t","u","r","e","-","1","2","3">>,
                <<"f","e","a","t","u","r","e","_","1","2","3">>, <<"1","2","3","-","f","e","a","t","u","r","e","-">> }

BranchNameInputs == StringsOver(NameChars, MaxNameLen) \cup LongNames \cup PROTECTED_NAMESPACES

\* The branch names DeprovisionRequest accepts: the only ones the handler
\* passes to the service (function_app.py:84, 186-188).
AcceptedBranchNames == { v \in BranchNameInputs : ~DeprovisionRequest(v).raised }

\* Field values of a DeploymentRequest: a letter, the hyphen and two kinds of
\* whitespace.
FieldInputs == StringsOver({"a", "-", " ", "\t"}, MaxNameLen)

\* Namespaces with and without the prefix, with the prefix twice, with a
\* prefix that differs in one character, and the namespaces of the branches.
NamespaceInputs ==
    { p \o s : p \in { << >>, <<"f","e","a","t","u","r","e","-">>, <<"f","e","a","t","u","r","e">>, <<"F","e","a","t","u","r","e","-">>,
                       <<"x","-","f","e","a","t","u","r","e","-">> },
               s \in StringsOver({"a", "-"}, MaxNameLen) }
        \cup { NamespaceFor(b) : b \in Branches }
        \cup { NamespaceFor(NamespaceFor(b)) : b \in Branches }

FnFrame == UNCHANGED <<dvars, yvars, pvars, hvars, cvars, wvars, fn, arg>>

\* models_requests.py:13-56
Call_DeprovisionRequest ==
    /\ fn = "DeprovisionRequest"
    /\ ~ret.returned
    /\ ret' = DeprovisionRequest(arg)
    /\ FnFrame

\* The names the service derives from a branch name the request model
\* accepted (deprovisioning_service.py:723 and 83).
Call_DeriveNames ==
    /\ fn = "derive_names"
    /\ ~ret.returned
    /\ ret' = [ returned |-> TRUE, raised |-> FALSE,
                namespace |-> NamespaceFor(arg),
                database_name |-> SanitizedDbName(arg) ]
    /\ FnFrame

\* deployment-function/models/requests.py:6-38
Call_DeploymentRequest ==
    /\ fn = "DeploymentRequest"
    /\ ~ret.returned
    /\ ret' = DeploymentRequest(arg[1], arg[2])
    /\ FnFrame

\* deployment_service.py:836-846
Call_GenerateDeploymentUrl ==
    /\ fn = "_generate_deployment_url"
    /\ ~ret.returned
    /\ ret' = [returned |-> TRUE, raised |-> FALSE, url |-> GenerateDeploymentUrl(arg)]
    /\ FnFrame

\* Pieces of apply output: a resource, the three words with the space before
\* them, a remark after the word, a line feed, a warning prefix, a space and
\* a word that only starts like one of the three.
OutputPieces ==
    { <<"a","/","b">>, <<" ","c","r","e","a","t","e","d">>, <<" ","c","o","n","f","i","g","u","r","e","d">>, <<" ","u","n","c","h","a","n","g","e","d">>, <<" ","(","x",")">>,
      <<"\n">>, <<"W",":">>, <<" ">>, <<" ","c","r","e","a","t","e","d","B","y">> }

RECURSIVE Flatten(_)
Flatten(ss) == IF ss = << >> THEN << >> ELSE Head(ss) \o Flatten(Tail(ss))

StdoutInputs ==
    { Flatten(ps) : ps \in UNION { [1..k -> OutputPieces] : k \in 0..MaxPieces } }

\* deployment_service.py:560-569
Call_ParseApplyOutput ==
    /\ fn = "parse_apply_output"
    /\ ~ret.returned
    /\ ret' = [ returned |-> TRUE, raised |-> FALSE,
                deployed_resources |-> ParseApplyOutput(arg) ]
    /\ FnFrame

\* One function is called on one argument of its domain.
InitFunctions ==
    /\ entry = "function"
    /\ \/ fn = "DeprovisionRequest" /\ arg \in BranchNameInputs
       \/ fn = "derive_names" /\ arg \in AcceptedBranchNames
       \/ fn = "DeploymentRequest" /\ arg \in FieldInputs \X FieldInputs
       \/ fn = "_generate_deployment_url" /\ arg \in NamespaceInputs
       \/ fn = "parse_apply_output" /\ arg \in StdoutInputs
    /\ ret = [returned |-> FALSE]
    /\ branch_name = << >>
    /\ adminPassword = TRUE
    /\ DeprovisionIdle
    /\ DeployIdle
    /\ ProvisionIdle
    /\ EndpointsIdle
    /\ WorkerIdle
    /\ WorkflowsIdle

NextFunctions ==
    \/ Call_DeprovisionRequest
    \/ Call_DeriveNames
    \/ Call_DeploymentRequest
    \/ Call_GenerateDeploymentUrl
    \/ Call_ParseApplyOutput

SpecFunctions == InitFunctions /\ [][NextFunctions]_vars

---------------------------------------------------------------------------
\* The rewriting of the overlay's kustomization file, as a function of the
\* file's text and of the request, next to the deployment workflow that
\* performs it

\* Pieces of a kustomization file: the four placeholders, the bare branch
\* placeholder, a suffix that turns a placeholder into another one, a line
\* feed and other text.
KustomizationPieces ==
    { NamespacePlaceholder, HostPlaceholder, DatabasePlaceholder, TagPlaceholder,
      <<"B","R","A","N","C","H","_","N","A","M","E">>, <<"_","D","B">>, <<"\n">>, <<"x">> }

KustomizationInputs ==
    { Flatten(ps) : ps \in UNION { [1..k -> KustomizationPieces] : k \in 0..MaxPieces } }

\* deployment_service.py:437-459, for a request with the given fields
Call_RewriteKustomization ==
    /\ fn = "rewrite_kustomization"
    /\ ~ret.returned
    /\ ret' = [ returned |-> TRUE, raised |-> FALSE,
                text |-> RewriteKustomization(arg.text, arg.branch_name,
                                              NamespaceFor(arg.branch_name),
                                              arg.branch_name \o <<"-">> \o arg.commit_sha) ]
    /\ FnFrame

InitRewriteCall ==
    /\ entry = "function"
    /\ fn = "rewrite_kustomization"
    /\ arg \in [text : KustomizationInputs, branch_name : Branches, commit_sha : CommitShas]
    /\ ret = [returned |-> FALSE]
    /\ branch_name = << >>
    /\ adminPassword = TRUE
    /\ DeprovisionIdle
    /\ DeployIdle
    /\ ProvisionIdle
    /\ EndpointsIdle
    /\ WorkerIdle
    /\ WorkflowsIdle

InitKustomization == InitDeploy \/ InitRewriteCall

NextKustomization == NextDeploy \/ Call_RewriteKustomization

SpecKustomization == InitKustomization /\ [][NextKustomization]_vars

---------------------------------------------------------------------------
\* Several requests served by one worker process.  The Kubernetes client
\* library keeps one default configuration per process: load_kube_config
\* installs it, and every client built without arguments starts from a copy
\* of it.  The deprovisioning handler is a plain function, which the worker
\* runs on a thread pool, so steps of requests interleave; the deployment
\* handler is a coroutine whose workflow never suspends, so the event loop
\* runs one request's workflow to its end before the next one starts.

Requests == 1..MaxRequests

NoClients == [api |-> 0, apps |-> 0, core |-> 0, batch |-> 0]

NoFiles == [file |-> "none", manifests |-> 0]

\* tempfile.mkdtemp() returns a directory no earlier call returned.
FreshDirectory ==
    1 + Cardinality({ c_kubeconfig[r].manifests : r \in Requests } \ {0})

\* The coroutine of request r may run: no other coroutine is in progress.
EventLoopRuns(r) ==
    \A o \in Requests \ {r} : c_pc[o] \in {"start", "done"}

WorkerFrame == UNCHANGED <<dvars, yvars, pvars, hvars, fvars, wvars>>

\* deployment_service.py:326-391
W_DownloadManifests(r) ==
    /\ entry = "deployment-function"
    /\ c_pc[r] = "start"
    /\ EventLoopRuns(r)
    /\ \E answer \in {"ok", "error"} :
          IF answer = "ok"
          THEN /\ c_kubeconfig' = [c_kubeconfig EXCEPT ![r].manifests = FreshDirectory]
               /\ c_pc' = [c_pc EXCEPT ![r] = "configure"]
          ELSE /\ c_pc' = [c_pc EXCEPT ![r] = "done"]
               /\ UNCHANGED c_kubeconfig
    /\ UNCHANGED <<default_configuration, c_client>>
    /\ WorkerFrame

\* deployment_service.py:393-417: the kubeconfig is written to a fresh file,
\* loaded as the process default, copied into self._k8s_client, and the file
\* is removed.
W_ConfigureK8sClient(r) ==
    /\ entry = "deployment-function"
    /\ c_pc[r] = "configure"
    /\ EventLoopRuns(r)
    /\ \E answer \in {"ok", "error"} :
          IF answer = "ok"
          THEN /\ default_configuration' = r
               /\ c_client' = [c_client EXCEPT ![r].api = r]
               /\ c_kubeconfig' = [c_kubeconfig EXCEPT ![r].file = "removed"]
               /\ c_pc' = [c_pc EXCEPT ![r] = "deploy"]
          ELSE /\ c_pc' = [c_pc EXCEPT ![r] = "done"]
               /\ UNCHANGED <<default_configuration, c_client, c_kubeconfig>>
    /\ WorkerFrame

\* deployment_service.py:434-500: the overlay in the request's own directory
\* is rewritten and applied by kubectl with a kubeconfig file of its own.
W_DeployToAks(r) ==
    /\ entry = "deployment-function"
    /\ c_pc[r] = "deploy"
    /\ EventLoopRuns(r)
    /\ \E answer \in {"ok", "error"} :
          c_pc' = [c_pc EXCEPT ![r] = IF answer = "ok" THEN "health" ELSE "done"]
    /\ UNCHANGED <<c_kubeconfig, default_configuration, c_client>>
    /\ WorkerFrame

\* deployment_service.py:613-621: AppsV1Api() and CoreV1Api() are built from
\* the process default.
W_PerformHealthChecks(r) ==
    /\ entry = "deployment-function"
    /\ c_pc[r] = "health"
    /\ EventLoopRuns(r)
    /\ c_client' = [c_client EXCEPT ![r].apps = default_configuration,
                                    ![r].core = default_configuration]
    /\ c_pc' = [c_pc EXCEPT ![r] = "done"]
    /\ UNCHANGED <<c_kubeconfig, default_configuration>>
    /\ WorkerFrame

\* deprovisioning_service.py:536-542
T_ListCredentials(r) ==
    /\ entry = "deprovisioning-function"
    /\ c_pc[r] = "start"
    /\ \E answer \in {"ok", "error"} :
          c_pc' = [c_pc EXCEPT ![r] = IF answer = "ok" THEN "write" ELSE "done"]
    /\ UNCHANGED <<c_kubeconfig, default_configuration, c_client>>
    /\ WorkerFrame

\* deprovisioning_service.py:548-553
T_WriteKubeconfig(r) ==
    /\ entry = "deprovisioning-function"
    /\ c_pc[r] = "write"
    /\ c_kubeconfig' = [c_kubeconfig EXCEPT ![r].file = "written"]
    /\ c_pc' = [c_pc EXCEPT ![r] = "load"]
    /\ UNCHANGED <<default_configuration, c_client>>
    /\ WorkerFrame

\* deprovisioning_service.py:557
T_LoadKubeConfig(r) ==
    /\ entry = "deprovisioning-function"
    /\ c_pc[r] = "load"
    /\ \E answer \in {"ok", "error"} :
          IF answer = "ok"
          THEN /\ default_configuration' = r
               /\ c_pc' = [c_pc EXCEPT ![r] = "core_client"]
          ELSE /\ c_pc' = [c_pc EXCEPT ![r] = "unlink"]
               /\ UNCHANGED default_configuration
    /\ UNCHANGED <<c_kubeconfig, c_client>>
    /\ WorkerFrame

\* deprovisioning_service.py:561
T_CoreV1Api(r) ==
    /\ entry = "deprovisioning-function"
    /\ c_pc[r] = "core_client"
    /\ c_client' = [c_client EXCEPT ![r].core = default_configuration]
    /\ c_pc' = [c_pc EXCEPT ![r] = "read_namespace"]
    /\ UNCHANGED <<c_kubeconfig, default_configuration>>
    /\ WorkerFrame

\* deprovisioning_service.py:564-595
T_ReadNamespace(r) ==
    /\ entry = "deprovisioning-function"
    /\ c_pc[r] = "read_namespace"
    /\ \E answer \in {"found", "not_found", "error"} :
          c_pc' = [c_pc EXCEPT ![r] = IF answer = "found" THEN "batch_client" ELSE "unlink"]
    /\ UNCHANGED <<c_kubeconfig, default_configuration, c_client>>
    /\ WorkerFrame

\* deprovisioning_service.py:598, 420
T_BatchV1Api(r) ==
    /\ entry = "deprovisioning-function"
    /\ c_pc[r] = "batch_client"
    /\ c_client' = [c_client EXCEPT ![r].batch = default_configuration]
    /\ c_pc' = [c_pc EXCEPT ![r] = "delete"]
    /\ UNCHANGED <<c_kubeconfig, default_configuration>>
    /\ WorkerFrame

\* deprovisioning_service.py:421-470, 611
T_SuspendAndDelete(r) ==
    /\ entry = "deprovisioning-function"
    /\ c_pc[r] = "delete"
    /\ c_pc' = [c_pc EXCEPT ![r] = "unlink"]
    /\ UNCHANGED <<c_kubeconfig, default_configuration, c_client>>
    /\ WorkerFrame

\* deprovisioning_service.py:631-634
T_Unlink(r) ==
    /\ entry = "deprovisioning-function"
    /\ c_pc[r] = "unlink"
    /\ c_kubeconfig' = [c_kubeconfig EXCEPT ![r].file = "removed"]
    /\ c_pc' = [c_pc EXCEPT ![r] = "done"]
    /\ UNCHANGED <<default_configuration, c_client>>
    /\ WorkerFrame

InitRequests ==
    /\ entry \in {"deployment-function", "deprovisioning-function"}
    /\ c_pc = [r \in Requests |-> "start"]
    /\ c_kubeconfig = [r \in Requests |-> NoFiles]
    /\ default_configuration = 0
    /\ c_client = [r \in Requests |-> NoClients]
    /\ branch_name = << >>
    /\ adminPassword = TRUE
    /\ DeprovisionIdle
    /\ DeployIdle
    /\ ProvisionIdle
    /\ EndpointsIdle
    /\ FunctionsIdle
    /\ WorkflowsIdle

NextRequests ==
    \E r \in Requests :
        \/ W_DownloadManifests(r)
        \/ W_ConfigureK8sClient(r)
        \/ W_DeployToAks(r)
        \/ W_PerformHealthChecks(r)
        \/ T_ListCredentials(r)
        \/ T_WriteKubeconfig(r)
        \/ T_LoadKubeConfig(r)
        \/ T_CoreV1Api(r)
        \/ T_ReadNamespace(r)
        \/ T_BatchV1Api(r)
        \/ T_SuspendAndDelete(r)
        \/ T_Unlink(r)

SpecRequests == InitRequests /\ [][NextRequests]_vars

---------------------------------------------------------------------------
\* Workflows of one branch against the same database server, managed
\* identities and cluster.  The remote systems hold named resources; each
\* remote call is one step and is answered from what exists at that moment,
\* so a second workflow may change the answer between two calls of the
\* first.  Three arrangements: two deprovisioning workflows side by side, two
\* provisioning workflows side by side, and provisioning, deployment's
\* overlay rewrite and deprovisioning one after the other.

Workflows == {1, 2}

Arrangements == {"concurrent_deprovision", "concurrent_provision", "provision_then_deprovision"}

\* Variant: hyphens are dropped instead of replaced.
SanitizedName_HyphensDropped(database_name) == Replace(database_name, <<"-">>, << >>)

\* provisioning_service.py:123 and deprovisioning_service.py:83
SanitizedName(database_name) == Replace(database_name, <<"-">>, <<"_">>)

\* provisioning_service.py:267, 283-285
ProvisionedCredential(b) ==
    [identity |-> "managed_identity_name", name |-> CredentialName(b)]

\* Variant: the database credential deprovisioning deletes is the one
\* provisioning creates.
DeprovisionedCredential_ProvisionedName(which, b) ==
    IF which = "database_credential"
    THEN ProvisionedCredential(b)
    ELSE [identity |-> "keyvault_identity_name",
          name |-> <<"k","v","-">> \o b]

\* deprovisioning_service.py:249-250, 269-273, 332-336
DeprovisionedCredential(which, b) ==
    IF which = "database_credential"
    THEN [identity |-> "database_identity_name", name |-> <<"d","a","t","a","b","a","s","e","-","w","o","r","k","l","o","a","d","-","i","d","e","n","t","i","t","y","-">> \o b]
    ELSE [identity |-> "keyvault_identity_name", name |-> <<"k","e","y","v","a","u","l","t","-","w","o","r","k","l","o","a","d","-","i","d","e","n","t","i","t","y","-">> \o b]

\* Everything any workflow of branch b names.
ResourcesOf_Branch(b) ==
    [ databases   |-> {SanitizedName(b)},
      credentials |-> {ProvisionedCredential(b),
                       DeprovisionedCredential("database_credential", b),
                       DeprovisionedCredential("keyvault_credential", b)},
      namespaces  |-> {b, NamespaceFor(b)} ]

NoFlags ==
    [namespace |-> FALSE, database |-> FALSE, credential |-> FALSE,
     database_credential |-> FALSE, keyvault_credential |-> FALSE]

\* The locals of one workflow: its kind, the outcome flags of its steps, the
\* errors it recorded, whether a call failed for a reason other than the
\* state of the resource, the database name it put into its SQL, whether its
\* database connection is open, and which resources its calls brought into
\* existence.
NewWorkflow(kind) ==
    [kind |-> kind, flags |-> NoFlags, errors |-> << >>, faults |-> FALSE,
     database |-> << >>, conn |-> FALSE, created |-> {}]

KindOf(w) ==
    CASE entry = "concurrent_deprovision" -> "deprovision"
      [] entry = "concurrent_provision" -> "provision"
      [] OTHER -> IF w = 1 THEN "provision" ELSE "deprovision"

\* In the third arrangement the overlay is rewritten after provisioning has
\* answered and deprovisioning starts after that.
MayRun(w) ==
    entry = "provision_then_deprovision" /\ w = 2 =>
        (w_pc[1] = "done" /\ w_world.overlay # << >>)

WorkflowFrame == UNCHANGED <<dvars, yvars, pvars, hvars, fvars, cvars>>

Goes(w, to) == w_pc' = [w_pc EXCEPT ![w] = to]

Records(w, operation, severity) ==
    [w_local EXCEPT ![w].errors = Append(@, [operation |-> operation, severity |-> severity])]

\* deprovisioning_service.py:563-595 with 736-757 of the orchestrator
WD_ReadNamespace(w) ==
    /\ w_pc[w] = "dn_read"
    /\ MayRun(w)
    /\ \E answer \in (IF NamespaceFor(branch_name) \in w_world.namespaces
                      THEN {"ok"} ELSE {"not_found"}) \cup {"error"} :
          CASE answer = "ok" ->
                 /\ Goes(w, "dn_suspend")
                 /\ UNCHANGED w_local
            [] answer = "not_found" ->
                 /\ Goes(w, "fc_database")
                 /\ w_local' = [w_local EXCEPT ![w].flags.namespace = TRUE]
            [] answer = "error" ->
                 /\ Goes(w, "fc_database")
                 /\ w_local' = [Records(w, "namespace_deletion", "critical")
                                   EXCEPT ![w].faults = TRUE]
    /\ UNCHANGED <<w_world, w_result>>
    /\ WorkflowFrame

\* deprovisioning_service.py:418-468: the CronJobs are listed and patched; a
\* namespace that is gone answers 404, which ends the suspension with 0.
WD_SuspendCronJobs(w) ==
    /\ w_pc[w] = "dn_suspend"
    /\ Goes(w, "dn_delete")
    /\ UNCHANGED <<w_world, w_local, w_result>>
    /\ WorkflowFrame

\* deprovisioning_service.py:611, 636-651: a namespace that is gone answers
\* 404, an ApiException that delete_namespace passes on.
WD_DeleteNamespace(w) ==
    /\ w_pc[w] = "dn_delete"
    /\ IF NamespaceFor(branch_name) \in w_world.namespaces
       THEN /\ w_world' = [w_world EXCEPT !.namespaces = @ \ {NamespaceFor(branch_name)}]
            /\ w_local' = [w_local EXCEPT ![w].flags.namespace = TRUE]
       ELSE /\ w_local' = Records(w, "namespace_deletion", "critical")
            /\ UNCHANGED w_world
    /\ Goes(w, "fc_database")
    /\ UNCHANGED w_result
    /\ WorkflowFrame

\* deprovisioning_service.py:264-387: one credential; ResourceNotFoundError
\* counts as deleted.
WD_DeleteCredential(w, which) ==
    /\ w_pc[w] = (IF which = "database_credential" THEN "fc_database" ELSE "fc_keyvault")
    /\ w_world' = [w_world EXCEPT !.credentials = @ \ {DeprovisionedCredential(which, branch_name)}]
    /\ w_local' = [w_local EXCEPT ![w].flags[which] = TRUE]
    /\ Goes(w, IF which = "database_credential" THEN "fc_keyvault" ELSE "db_select")
    /\ UNCHANGED w_result
    /\ WorkflowFrame

\* deprovisioning_service.py:83, 106-138: connect and ask whether the
\* database exists; an absent one ends the step (conn.close() at 169).
WD_SelectExists(w) ==
    /\ w_pc[w] = "db_select"
    /\ LET name == SanitizedName(branch_name)
       IN  IF name \in w_world.databases
           THEN /\ w_local' = [w_local EXCEPT ![w].database = name, ![w].conn = TRUE]
                /\ Goes(w, "db_drop")
           ELSE /\ w_local' = [w_local EXCEPT ![w].database = name, ![w].conn = FALSE,
                                              ![w].flags.database = TRUE]
                /\ Goes(w, "build")
    /\ UNCHANGED <<w_world, w_result>>
    /\ WorkflowFrame

\* deprovisioning_service.py:149-169, 186-201: terminate the backends and
\* DROP DATABASE; a database that is gone makes the DROP raise psycopg2.Error,
\* which delete_database passes on without closing the connection.
WD_DropDatabase(w) ==
    /\ w_pc[w] = "db_drop"
    /\ IF w_local[w].database \in w_world.databases
       THEN /\ w_world' = [w_world EXCEPT !.databases = @ \ {w_local[w].database}]
            /\ w_local' = [w_local EXCEPT ![w].flags.database = TRUE, ![w].conn = FALSE]
       ELSE /\ w_local' = Records(w, "database_deletion", "critical")
            /\ UNCHANGED w_world
    /\ Goes(w, "build")
    /\ UNCHANGED w_result
    /\ WorkflowFrame

\* deprovisioning_service.py:858-883, 930-931
WD_BuildResult(w) ==
    /\ w_pc[w] = "build"
    /\ KindOf(w) = "deprovision"
    /\ w_result' = [w_result EXCEPT ![w] =
                      [returned |-> TRUE, status |-> OverallStatus(w_local[w].errors)]]
    /\ Goes(w, "done")
    /\ UNCHANGED <<w_world, w_local>>
    /\ WorkflowFrame

\* provisioning_service.py:599-623: any exception of a step ends the run.
WorkflowFails(w) ==
    /\ w_result' = [w_result EXCEPT ![w] = [returned |-> TRUE, status |-> "error"]]
    /\ Goes(w, "done")

\* provisioning_service.py:95-191: CREATE DATABASE; "already exists" in the
\* driver's message counts as created.
WP_CreateDatabase(w) ==
    /\ w_pc[w] = "cd_create"
    /\ LET name == SanitizedName(branch_name)
       IN  \E answer \in (IF name \in w_world.databases
                          THEN {"already_exists"} ELSE {"ok"}) \cup {"error"} :
              IF answer = "error"
              THEN /\ w_local' = [w_local EXCEPT ![w].faults = TRUE, ![w].database = name]
                   /\ WorkflowFails(w)
                   /\ UNCHANGED w_world
              ELSE /\ w_world' = [w_world EXCEPT !.databases = @ \cup {name}]
                   /\ w_local' = [w_local EXCEPT
                                     ![w].flags.database = TRUE,
                                     ![w].database = name,
                                     ![w].created = IF answer = "ok"
                                                    THEN @ \cup {"database"} ELSE @]
                   /\ Goes(w, "fc_create")
                   /\ UNCHANGED w_result
    /\ WorkflowFrame

\* provisioning_service.py:266-293: create_or_update
WP_CreateCredential(w) ==
    /\ w_pc[w] = "fc_create"
    /\ w_world' = [w_world EXCEPT !.credentials = @ \cup {ProvisionedCredential(branch_name)}]
    /\ w_local' = [w_local EXCEPT
                      ![w].flags.credential = TRUE,
                      ![w].created = IF ProvisionedCredential(branch_name) \in w_world.credentials
                                     THEN @ ELSE @ \cup {"credential"}]
    /\ Goes(w, "cn_read")
    /\ UNCHANGED w_result
    /\ WorkflowFrame

\* provisioning_service.py:420-441: an existing namespace ends the step with
\* True, a 404 goes on to the creation.
WP_ReadNamespace(w) ==
    /\ w_pc[w] = "cn_read"
    /\ IF branch_name \in w_world.namespaces
       THEN /\ w_local' = [w_local EXCEPT ![w].flags.namespace = TRUE]
            /\ Goes(w, "build")
       ELSE /\ Goes(w, "cn_create")
            /\ UNCHANGED w_local
    /\ UNCHANGED <<w_world, w_result>>
    /\ WorkflowFrame

\* provisioning_service.py:443-471: create_namespace; a namespace that exists
\* by now answers 409, an ApiException that is logged and raised again.
WP_CreateNamespace(w) ==
    /\ w_pc[w] = "cn_create"
    /\ IF branch_name \in w_world.namespaces
       THEN /\ WorkflowFails(w)
            /\ UNCHANGED <<w_world, w_local>>
       ELSE /\ w_world' = [w_world EXCEPT !.namespaces = @ \cup {branch_name}]
            /\ w_local' = [w_local EXCEPT ![w].flags.namespace = TRUE,
                                          ![w].created = @ \cup {"namespace"}]
            /\ Goes(w, "build")
            /\ UNCHANGED w_result
    /\ WorkflowFrame

\* provisioning_service.py:571-597
WP_BuildResult(w) ==
    /\ w_pc[w] = "build"
    /\ KindOf(w) = "provision"
    /\ w_result' = [w_result EXCEPT ![w] = [returned |-> TRUE, status |-> "success"]]
    /\ Goes(w, "done")
    /\ UNCHANGED <<w_world, w_local>>
    /\ WorkflowFrame

\* deployment_service.py:437-461: between the two workflows of the third
\* arrangement the deployment rewrites the overlay for the branch.
WY_RewriteOverlay ==
    /\ entry = "provision_then_deprovision"
    /\ w_pc[1] = "done"
    /\ w_world.overlay = << >>
    /\ \E sha \in CommitShas :
          w_world' = [w_world EXCEPT !.overlay =
                         RewriteKustomization(DatabasePlaceholder, branch_name,
                                              NamespaceFor(branch_name),
                                              branch_name \o <<"-">> \o sha)]
    /\ UNCHANGED <<w_pc, w_local, w_result>>
    /\ WorkflowFrame

InitWorkflows ==
    /\ entry \in Arrangements
    /\ branch_name \in Branches
    /\ w_pc = [w \in Workflows |-> IF KindOf(w) = "provision" THEN "cd_create" ELSE "dn_read"]
    /\ w_local = [w \in Workflows |-> NewWorkflow(KindOf(w))]
    /\ w_result = [w \in Workflows |-> [returned |-> FALSE]]
    /\ \E dbs \in SUBSET ResourcesOf_Branch(branch_name).databases,
          creds \in SUBSET ResourcesOf_Branch(branch_name).credentials,
          nss \in SUBSET ResourcesOf_Branch(branch_name).namespaces :
          w_world = [databases |-> dbs, credentials |-> creds, namespaces |-> nss,
                     overlay |-> << >>]
    /\ adminPassword = TRUE
    /\ DeprovisionIdle
    /\ DeployIdle
    /\ ProvisionIdle
    /\ EndpointsIdle
    /\ FunctionsIdle
    /\ WorkerIdle

NextWorkflows ==
    \/ \E w \in Workflows :
          \/ WD_ReadNamespace(w)
          \/ WD_SuspendCronJobs(w)
          \/ WD_DeleteNamespace(w)
          \/ WD_DeleteCredential(w, "database_credential")
          \/ WD_DeleteCredential(w, "keyvault_credential")
          \/ WD_SelectExists(w)
          \/ WD_DropDatabase(w)
          \/ WD_BuildResult(w)
          \/ WP_CreateDatabase(w)
          \/ WP_CreateCredential(w)
          \/ WP_ReadNamespace(w)
          \/ WP_CreateNamespace(w)
          \/ WP_BuildResult(w)
    \/ WY_RewriteOverlay

SpecWorkflows == InitWorkflows /\ [][NextWorkflows]_vars

---------------------------------------------------------------------------
\* The namespace a deprovisioning request targets: the derivation from an
\* accepted branch name, next to the workflow that uses it

InitDeprovisionTarget == InitDeprovision \/ InitFunctions

NextDeprovisionTarget == NextDeprovision \/ NextFunctions

SpecDeprovisionTarget == InitDeprovisionTarget /\ [][NextDeprovisionTarget]_vars

---------------------------------------------------------------------------
\* Properties of the deprovisioning workflow (SpecDeprovision)

Issued(name) == \E i \in DOMAIN calls : calls[i].call = name

CountCalls(name) == Cardinality({i \in DOMAIN calls : calls[i].call = name})

Answered(name, answer) == \E i \in DOMAIN calls : calls[i] = Call(name, answer)

\* Some call of this run failed for a reason other than the resource being absent.
Faulted == \E i \in DOMAIN calls : calls[i].answer \notin {"ok", "not_found"}

\* deprovision_environment has returned its result.
Finished == entry = "deprovision_environment" /\ pc = "done"

HasCritical(errs) == \E i \in DOMAIN errs : errs[i].severity = "critical"

StepOrder == <<"delete_namespace", "delete_federated_credentials", "delete_database">>

\* C1: the returned status is "error" exactly when a critical error was
\* recorded, which is exactly when delete_namespace or delete_database raised;
\* with warnings only the status is "success" and the warnings of the
\* credential step are returned under "errors".
C1_StatusErrorIffCritical ==
    Finished =>
       /\ result.status \in {"error", "success"}
       /\ (result.status = "error") <=> HasCritical(result.errors)
       /\ HasCritical(result.errors) <=> (nsRet.raised \/ dbRet.raised)
       /\ (~HasCritical(result.errors) /\ credRet.raised) =>
             /\ result.has_errors
             /\ Len(result.errors) = 1
             /\ result.errors[1].operation = "credentials_deletion"
             /\ result.errors[1].severity = "warning"
       /\ (~HasCritical(result.errors) /\ ~credRet.raised) =>
             /\ result.errors = credRet.errors
             /\ result.has_errors = (Len(credRet.errors) > 0)

C1_Witness ==
    /\ Finished
    /\ result.status = "success"
    /\ Len(result.errors) > 0
    /\ result.has_errors

\* C2: in every run the three steps are entered once each, in the order
\* namespace, credentials, database, and each has come back (returned or
\* raised) before the result is built, whatever the earlier outcomes.
C2_StepsOnceInOrder ==
    entry = "deprovision_environment" =>
       /\ Len(steps) <= Len(StepOrder)
       /\ \A i \in DOMAIN steps : steps[i] = StepOrder[i]
       /\ (pc \in {"build_result", "done"}) =>
             /\ steps = StepOrder
             /\ nsRet.returned /\ credRet.returned /\ dbRet.returned

C2_Witness ==
    /\ Finished
    /\ nsRet.raised
    /\ credRet.raised
    /\ steps = StepOrder

\* C3: for every protected namespace name, delete_namespace raises ValueError
\* and nothing has been called: no credential request, no kubeconfig file, no
\* namespace read, no CronJob patch, no namespace delete.
C3_ProtectedRejectedBeforeAnyCall ==
    namespace_name \in PROTECTED_NAMESPACES =>
       /\ calls = << >>
       /\ ~kubeconfigFile
       /\ nsExists
       /\ pc \in {"dn_check", "done"}
       /\ (pc = "done") => (nsRet = Raised("ValueError"))

C3_Witness ==
    /\ namespace_name \in PROTECTED_NAMESPACES
    /\ pc = "done"
    /\ nsRet.returned
    /\ nsRet.raised

AllAbsentAtStart ==
    /\ ~initial.ns
    /\ ~initial.creds["database_credential"]
    /\ ~initial.creds["keyvault_credential"]
    /\ ~initial.db

AllFlagsTrue(ops) ==
    /\ ops.namespace_deleted
    /\ ops.database_deleted
    /\ ops.credentials_deleted["database_credential"]
    /\ ops.credentials_deleted["keyvault_credential"]

\* C4: absence is success.  When namespace, credentials and database are all
\* absent when the run starts, the admin password is configured and no call
\* fails for another reason than absence, the result is "success" with all
\* four flags true and no error recorded; and a run that follows a successful
\* run of the same branch is again "success" under the same condition.
C4_AbsentIsSuccess ==
    /\ (Finished /\ AllAbsentAtStart /\ adminPassword /\ ~Faulted) =>
          /\ result.status = "success"
          /\ AllFlagsTrue(result.operations)
          /\ ~HasCritical(result.errors)
          /\ result.errors = << >>
    /\ (Finished /\ run > 1 /\ prevStatus = "success" /\ ~Faulted) =>
          /\ result.status = "success"
          /\ AllFlagsTrue(result.operations)

C4_Witness ==
    /\ Finished
    /\ run = 2
    /\ prevStatus = "success"
    /\ AllAbsentAtStart
    /\ ~Faulted
    /\ Answered("read_namespace", "not_found")
    /\ result.status = "success"

\* C5: when delete_database raises, the result is "error" with
\* database_deleted false, and namespace_deleted and the two credential flags
\* are those of their own steps.
C5_DatabaseFailureKeepsOtherOutcomes ==
    (Finished /\ dbRet.raised) =>
       /\ result.status = "error"
       /\ ~result.operations.database_deleted
       /\ result.operations.namespace_deleted = (~nsRet.raised /\ nsRet.deleted)
       /\ result.operations.namespace_deleted => ~nsExists
       /\ result.operations.credentials_deleted =
             (IF credRet.raised
              THEN [database_credential |-> FALSE, keyvault_credential |-> FALSE]
              ELSE credRet.deleted)

C5_Witness ==
    /\ Finished
    /\ Answered("drop_database", "error")
    /\ dbRet.raised
    /\ result.operations.namespace_deleted
    /\ result.operations.credentials_deleted["database_credential"]
    /\ ~result.operations.credentials_deleted["keyvault_credential"]

AnswerOf(name) == calls[CHOOSE i \in DOMAIN calls : calls[i].call = name].answer

ErrorsFor(errs, which) ==
    SelectSeq(errs, LAMBDA e : e.operation = which \o "_deletion")

\* C6: once delete_federated_credentials has its identity client, each of the
\* two credentials is attempted exactly once whatever the other did; deleted
\* or not-found sets its flag, any other failure leaves the flag false and
\* records one warning, nothing is raised; failures of the credential step
\* alone leave the overall status "success".
C6_CredentialsIndependent ==
    /\ (credRet.returned /\ ~credRet.raised) =>
          /\ \A which \in {"database_credential", "keyvault_credential"} :
                /\ CountCalls("delete_" \o which) = 1
                /\ (AnswerOf("delete_" \o which) \in {"ok", "not_found"}) =>
                      /\ credRet.deleted[which]
                      /\ ~credExists[which]
                      /\ Len(ErrorsFor(credRet.errors, which)) = 0
                /\ (AnswerOf("delete_" \o which) = "error") =>
                      /\ ~credRet.deleted[which]
                      /\ credExists[which] = initial.creds[which]
                      /\ Len(ErrorsFor(credRet.errors, which)) = 1
          /\ \A i \in DOMAIN credRet.errors : credRet.errors[i].severity = "warning"
    /\ (Finished /\ ~nsRet.raised /\ ~dbRet.raised) => result.status = "success"

C6_Witness ==
    /\ Finished
    /\ Answered("delete_database_credential", "error")
    /\ Answered("delete_keyvault_credential", "ok")
    /\ ~credRet.deleted["database_credential"]
    /\ credRet.deleted["keyvault_credential"]
    /\ result.status = "success"

SuspensionAnswered(answer) ==
    \/ Answered("list_namespaced_cron_job", answer)
    \/ Answered("patch_namespaced_cron_job", answer)

\* C7 as stated: whenever listing or patching a CronJob fails, the namespace
\* delete call is still issued and a successful delete reports deleted=true.
C7_SuspensionFailureNeverBlocksDelete ==
    (nsRet.returned /\ (SuspensionAnswered("error") \/ SuspensionAnswered("not_found"))) =>
       /\ Issued("delete_namespace")
       /\ Answered("delete_namespace", "ok") => (~nsRet.raised /\ nsRet.deleted)

\* C7 as the code has it: only a not-found (404) answer while listing or
\* patching CronJobs is tolerated (0 suspended, the delete is issued and a
\* successful delete reports deleted=true); any other suspension failure is
\* re-raised: no delete call is issued, delete_namespace raises, the namespace
\* stays, and the workflow records a critical error with namespace_deleted false.
C7_OnlyNotFoundSuspensionFailureIsTolerated ==
    /\ (nsRet.returned /\ SuspensionAnswered("not_found")) =>
          /\ Issued("delete_namespace")
          /\ Answered("delete_namespace", "ok") =>
                (nsRet = NsReturn(0, None) /\ ~nsExists)
    /\ SuspensionAnswered("error") =>
          /\ ~Issued("delete_namespace")
          /\ nsRet = Raised("ApiException")
          /\ nsExists
          /\ ~kubeconfigFile
          /\ Finished => (/\ result.status = "error"
                          /\ ~result.operations.namespace_deleted)

C7_Witness ==
    /\ nsRet.returned
    /\ Answered("patch_namespaced_cron_job", "not_found")
    /\ Answered("delete_namespace", "ok")
    /\ nsRet = NsReturn(0, None)

\* C8: DROP DATABASE is issued at most once and only after the termination of
\* the other backends has been issued and succeeded; when the database is
\* absent neither is issued and the step returns deleted=true.
C8_TerminateBeforeDrop ==
    /\ \A i \in DOMAIN calls :
          calls[i].call = "drop_database" =>
             \E j \in 1..(i - 1) : calls[j] = Call("pg_terminate_backend", "ok")
    /\ CountCalls("drop_database") <= 1
    /\ ~initial.db =>
          /\ ~Issued("pg_terminate_backend")
          /\ ~Issued("drop_database")
          /\ Answered("select_pg_database", "ok") =>
                (dbRet = DbReturn /\ ~connOpen)
    /\ (initial.db /\ dbRet.returned /\ ~dbRet.raised) =>
          /\ Answered("pg_terminate_backend", "ok")
          /\ Answered("drop_database", "ok")
          /\ ~dbExists

C8_Witness ==
    /\ initial.db
    /\ dbRet.returned
    /\ ~dbRet.raised
    /\ Answered("drop_database", "ok")

\* C9: a not-found answer of the existence check returns at once with
\* deleted=true, cronjobs_suspended=0, status "already_deleted"; any other
\* failure of the check is raised; in both cases no CronJob is listed or
\* patched and no namespace delete is issued.
C9_NotFoundReturnsEarly ==
    /\ Answered("read_namespace", "not_found") =>
          /\ nsRet = NsReturn(0, "already_deleted")
          /\ ~Issued("list_namespaced_cron_job")
          /\ ~Issued("patch_namespaced_cron_job")
          /\ ~Issued("delete_namespace")
    /\ Answered("read_namespace", "error") =>
          /\ nsRet = Raised("ApiException")
          /\ ~Issued("list_namespaced_cron_job")
          /\ ~Issued("patch_namespaced_cron_job")
          /\ ~Issued("delete_namespace")

C9_Witness ==
    /\ Answered("read_namespace", "not_found")
    /\ nsRet = NsReturn(0, "already_deleted")
    /\ ~kubeconfigFile

(***************************************************************************)
(* Properties of the deployment workflow (SpecDeploy)                      *)
(***************************************************************************)

DeployAnswered(name, answer) ==
    \E i \in DOMAIN y_calls : y_calls[i] = Call(name, answer)

\* Download, client configuration and apply all completed without exception
\* (image verification cannot fail).
StepsOneToFourCompleted ==
    /\ DeployAnswered("download_manifests", "ok")
    /\ DeployAnswered("load_kube_config", "ok")
    /\ DeployAnswered("kubectl_apply", "ok")

\* C10: deploy returns success=true whenever image verification, manifest
\* download, cluster-client configuration and apply all completed without an
\* exception, whatever the readiness of the inspected resources: the response
\* then carries the collected health records unchanged, ready or not, and no
\* error details.
C10_SuccessDoesNotDependOnHealth ==
    (response.returned /\ StepsOneToFourCompleted) =>
        /\ response.success
        /\ response.health_checks = health_checks
        /\ response.error_details = None

\* A successful response that holds a not-ready resource record.
C10_Witness ==
    /\ response.returned
    /\ StepsOneToFourCompleted
    /\ response.success
    /\ \E i \in DOMAIN response.health_checks :
          /\ ~response.health_checks[i].ready
          /\ response.health_checks[i].status # "failed"

\* The call at position i belongs to steps 1-4 (it was issued before any
\* successful apply) and did not answer ok.
AbortingFailureAt(i) ==
    /\ y_calls[i].answer # "ok"
    /\ \A j \in 1..(i - 1) : y_calls[j] # Call("kubectl_apply", "ok")

\* The call at position i belongs to the health-check step (after the
\* successful apply) and raised: the credential fetch or one of the listings.
HealthFailureAt(i) ==
    /\ y_calls[i].answer # "ok"
    /\ y_calls[i].call \in {"list_cluster_user_credentials", "list_namespaced_deployment",
                            "list_namespaced_stateful_set", "list_namespaced_service"}
    /\ \E j \in 1..(i - 1) : y_calls[j] = Call("kubectl_apply", "ok")

\* C11: when manifest download, cluster-client configuration, kustomization
\* rewrite or render/apply raises, no later step is executed (the failed call
\* is the last call issued; no health record is collected), and deploy has
\* returned a response with success=false and error_details set.
C11_FailedStepAbortsWithErrorResponse ==
    \A i \in DOMAIN y_calls :
        AbortingFailureAt(i) =>
            /\ i = Len(y_calls)
            /\ y_pc = "done"
            /\ health_checks = << >>
            /\ response.returned
            /\ ~response.success
            /\ response.error_details = y_calls[i].call
            /\ response.health_checks = << >>

\* The apply command timed out after the kustomization had been rewritten.
C11_Witness ==
    /\ DeployAnswered("rewrite_kustomization", "ok")
    /\ DeployAnswered("kubectl_apply", "timeout")
    /\ response.returned
    /\ ~response.success

\* After a failure inside the health-check step the step is over, its list
\* is not empty, and the response deploy builds is a success carrying it.
HealthFailureHandled ==
    \A i \in DOMAIN y_calls :
        HealthFailureAt(i) =>
            /\ i = Len(y_calls)
            /\ y_pc \in {"respond", "done"}
            /\ health_checks # << >>
            /\ (y_pc = "done" =>
                    /\ response.returned
                    /\ response.success
                    /\ response.health_checks = health_checks)

\* C12: when the credential fetch or a listing of the health-check step
\* raises, the step still hands a list to deploy, that list is never empty,
\* and deploy returns success=true with it; the step from the failing call
\* keeps the records collected so far or, when there are none, yields exactly
\* the one synthetic record with status "failed" and ready=false.
C12_HealthFailureNeverAborts ==
    [][ /\ HealthFailureHandled'
        /\ ( /\ Len(y_calls') = Len(y_calls) + 1
             /\ DeployAnswered("kubectl_apply", "ok")
             /\ y_calls'[Len(y_calls')].answer # "ok"
             /\ y_calls'[Len(y_calls')].call \in
                   {"list_cluster_user_credentials", "list_namespaced_deployment",
                    "list_namespaced_stateful_set", "list_namespaced_service"} ) =>
             health_checks' = IF health_checks = << >>
                              THEN << [ resource_type |-> "cluster", status |-> "failed",
                                        ready |-> FALSE, message |-> << >> ] >>
                              ELSE health_checks ]_vars

\* Listing the deployments raised before any record was collected, and the
\* successful response carries the single synthetic record.
C12_Witness ==
    /\ DeployAnswered("list_namespaced_deployment", "error")
    /\ response.returned
    /\ response.success
    /\ Len(response.health_checks) = 1
    /\ response.health_checks[1].status = "failed"
    /\ ~response.health_checks[1].ready

\* Readiness of a workload stated on the raw counts: both counts are set,
\* they are equal and the desired count is positive (an unset count is 0).
WorkloadIsReady(w) ==
    /\ w.ready_replicas # << >>
    /\ w.replicas # << >>
    /\ w.ready_replicas[1] = w.replicas[1]
    /\ w.replicas[1] > 0

ServiceIsReady(svc) == svc.ports # << >> /\ svc.ports[1] >= 1

\* C13: every deployment and stateful-set record has ready=true iff
\* ready_replicas equals the desired replicas and the desired replicas is
\* greater than 0, a missing count being 0 (2/2 ready, 0/0 not ready); every
\* service record has ready=true iff the service exposes at least one port.
\* Stated for every item the listings can return and for every record the
\* workflow has collected.
C13_ReadinessRule ==
    /\ \A w \in Workloads :
          /\ DeploymentCheck(w).ready <=> WorkloadIsReady(w)
          /\ StatefulSetCheck(w).ready <=> WorkloadIsReady(w)
    /\ \A svc \in Services : ServiceCheck(svc).ready <=> ServiceIsReady(svc)
    /\ \A i \in DOMAIN health_checks :
          LET hc == health_checks[i]
          IN  /\ hc.resource_type \in {"deployment", "statefulset"} =>
                    (hc.ready <=> (hc.message[1] = hc.message[2] /\ hc.message[2] > 0))
              /\ hc.resource_type = "service" => (hc.ready <=> hc.message[1] > 0)
              /\ hc.resource_type # "cluster" =>
                    hc.status = (IF hc.ready THEN "ready" ELSE "not-ready")

\* The response holds a ready 2/2 deployment, a not-ready 0/0 stateful set
\* and a not-ready service without ports.
C13_Witness ==
    /\ response.returned
    /\ response.success
    /\ \E i, j, k \in DOMAIN response.health_checks :
          /\ response.health_checks[i] =
                [ resource_type |-> "deployment", status |-> "ready", ready |-> TRUE,
                  message |-> <<2, 2>> ]
          /\ response.health_checks[j] =
                [ resource_type |-> "statefulset", status |-> "not-ready", ready |-> FALSE,
                  message |-> <<0, 0>> ]
          /\ response.health_checks[k] =
                [ resource_type |-> "service", status |-> "not-ready", ready |-> FALSE,
                  message |-> <<0>> ]

\* C14: every temporary kubeconfig file written by the deployment workflow
\* has been removed by the time deploy returns, on every path.
C14_NoKubeconfigLeftAfterDeploy ==
    response.returned => tempKubeconfigs = 0

\* What the code guarantees: no file is left when deploy returns success, or
\* when the failure happened before a file was written; a file is left
\* exactly when loading the kubeconfig, the render or the apply failed.
C14_KubeconfigLeftOnlyAfterFailedUse ==
    response.returned =>
        /\ tempKubeconfigs \in {0, 1}
        /\ (tempKubeconfigs = 1) <=>
              \/ DeployAnswered("load_kube_config", "error")
              \/ \E a \in {"nonzero", "timeout"} :
                    \/ DeployAnswered("kustomize_build", a)
                    \/ DeployAnswered("kubectl_apply", a)

\* The apply command failed and deploy returned while the kubeconfig written
\* for it is still on disk.
C14_Witness ==
    /\ response.returned
    /\ ~response.success
    /\ DeployAnswered("kubectl_apply", "nonzero")
    /\ tempKubeconfigs = 1

RolloutCall(i) == "rollout_status deployment/" \o deployments_to_check[i]

RolloutCalls == {RolloutCall(i) : i \in DOMAIN deployments_to_check}

RolloutWaits == SelectSeq(y_calls, LAMBDA c : c.call \in RolloutCalls)

HealthKubeconfigWritten ==
    \E i \in DOMAIN y_calls :
        /\ i > 1
        /\ y_calls[i - 1] = Call("kubectl_apply", "ok")
        /\ y_calls[i] = Call("list_cluster_user_credentials", "ok")

\* C16: each of the fixed deployments is waited for exactly once, in list
\* order, whatever the earlier wait answered (non-zero exit, timeout, error);
\* no wait outcome raises or skips the enumeration: once the health-check
\* kubeconfig was written, the step has left the waits only after both of
\* them, and the listing of the deployments follows the second wait.
C16_EveryRolloutWaitedOnceInOrder ==
    LET waits == RolloutWaits IN
    /\ Len(waits) <= Len(deployments_to_check)
    /\ \A i \in DOMAIN waits : waits[i].call = RolloutCall(i)
    /\ (HealthKubeconfigWritten /\ y_pc # "rollouts") =>
          /\ Len(waits) = Len(deployments_to_check)
          /\ \E i \in DOMAIN y_calls :
                /\ i > 1
                /\ y_calls[i].call = "list_namespaced_deployment"
                /\ y_calls[i - 1].call = RolloutCall(Len(deployments_to_check))
    /\ (y_pc = "rollouts" /\ rolloutIdx >= 1) => Len(waits) = rolloutIdx - 1

\* Both waits failed, one by timeout and one by a non-zero exit, and the
\* three listings still ran and deploy answered success.
C16_Witness ==
    /\ DeployAnswered(RolloutCall(1), "timeout")
    /\ DeployAnswered(RolloutCall(2), "nonzero")
    /\ DeployAnswered("list_namespaced_deployment", "ok")
    /\ DeployAnswered("list_namespaced_stateful_set", "ok")
    /\ DeployAnswered("list_namespaced_service", "ok")
    /\ response.returned
    /\ response.success

---------------------------------------------------------------------------
\* Properties of the provisioning workflow (SpecProvision) and of the two
\* namespace functions (SpecNamespaceFunctions)

PIssued(name) == \E i \in DOMAIN p_calls : p_calls[i].call = name

PAnswered(name, answer) ==
    \E i \in DOMAIN p_calls : p_calls[i].call = name /\ p_calls[i].answer = answer

\* The call at position i raised in its step function.
PRaisedAt(i) == p_calls[i].answer \notin {"ok", "already_exists", "404"}

\* provision_environment was entered and has returned or been left.
ProvisionLeft == p_pc \in {"respond", "done"} /\ (p_calls # << >> \/ p_result.returned)

\* C15: once delete_namespace or create_namespace has written its temporary
\* kubeconfig, the file is on disk only while the function is between the
\* load of the config and its last cluster call: it is gone after normal
\* completion, after the early return (namespace absent / already there) and
\* after any exception of the load or of a cluster call.
C15_NamespaceKubeconfigAlwaysRemoved ==
    /\ kubeconfigFile =>
          pc \in {"dn_load", "dn_read", "dn_list_cron", "dn_patch_cron", "dn_delete"}
    /\ (Issued("write_kubeconfig") /\ ~kubeconfigFile) => Issued("unlink_kubeconfig")
    /\ p_kubeconfigFile => p_pc \in {"ns_load", "ns_read", "ns_create"}

\* create_namespace took the early return of an existing namespace after the
\* file had been written, and the file is gone.
C15_Witness ==
    /\ PAnswered("load_kube_config", "ok")
    /\ PAnswered("read_namespace", "ok")
    /\ p_result.returned
    /\ ~p_kubeconfigFile

\* The fixed order of the calls of provision_environment.
StepRank(name) ==
    CASE name = "connect" -> 1
      [] name = "CREATE DATABASE" -> 2
      [] name = "managed_clusters.get" -> 3
      [] name = "get_identity_client" -> 4
      [] name = "create_or_update" -> 5
      [] name = "list_cluster_admin_credentials" -> 6
      [] name = "load_kube_config" -> 7
      [] name = "read_namespace" -> 8
      [] name = "create_namespace" -> 9

\* C17: the steps run in the order database creation, OIDC validation,
\* credential creation, namespace creation; a call that raises is the last
\* call of the run; a cluster without an OIDC issuer gets no credential
\* create-or-update and no namespace call, and a missing admin password no
\* call at all.
C17_ProvisionStepsInOrderAndFailFast ==
    /\ \A i, j \in DOMAIN p_calls :
          i < j => StepRank(p_calls[i].call) < StepRank(p_calls[j].call)
    /\ \A i \in DOMAIN p_calls :
          /\ StepRank(p_calls[i].call) > 1 =>
                (i > 1 /\ StepRank(p_calls[i - 1].call) = StepRank(p_calls[i].call) - 1)
          /\ PRaisedAt(i) => (i = Len(p_calls) /\ p_pc \in {"respond", "done"})
    /\ ~oidc_issuer => \A i \in DOMAIN p_calls : StepRank(p_calls[i].call) <= 3
    /\ ~adminPassword => p_calls = << >>

\* The cluster has no OIDC issuer: the run stopped after the cluster lookup.
C17_Witness ==
    /\ ~oidc_issuer
    /\ PAnswered("managed_clusters.get", "ok")
    /\ Len(p_calls) = 3
    /\ p_result.returned
    /\ p_result.status = "error"

\* Some step of the run raised.
SomeStepRaised ==
    \/ ~adminPassword
    \/ \E i \in DOMAIN p_calls : PRaisedAt(i)
    \/ (PAnswered("managed_clusters.get", "ok") /\ ~oidc_issuer)

NoProvisionFault ==
    /\ adminPassword
    /\ oidc_issuer
    /\ \A i \in DOMAIN p_calls : ~PRaisedAt(i)

AllProvisioned(w) == w.database /\ w.credential /\ w.namespace

\* C19: a run for a branch whose database, credential and namespace already
\* exist (such as the run after a successful one) returns status "success"
\* with the three created flags true and issues no namespace create call.
C19_ProvisionIsIdempotent ==
    /\ (p_run > 1 /\ p_prevStatus = "success") => AllProvisioned(p_initial)
    /\ (p_result.returned /\ AllProvisioned(p_initial) /\ NoProvisionFault) =>
          /\ p_result.status = "success"
          /\ p_result.database_created
          /\ p_result.credential_created
          /\ p_result.namespace_created
          /\ ~PIssued("create_namespace")
          /\ PAnswered("CREATE DATABASE", "already_exists")

\* The second run after a successful first one has answered success.
C19_Witness ==
    /\ p_run = 2
    /\ p_prevStatus = "success"
    /\ p_result.returned
    /\ p_result.status = "success"
    /\ PAnswered("CREATE DATABASE", "already_exists")
    /\ PAnswered("read_namespace", "ok")

RequiredBodyKeys ==
    {"status", "branch_name", "database_created", "credential_created",
     "namespace_created", "message", "timing"}

\* C20: every completed provisioning attempt, successful or not, is answered
\* with HTTP 200 and a body holding status, branch_name, database_created,
\* credential_created, namespace_created, message and timing.
C20_CompletedAttemptHasFullBody ==
    (http_response.sent /\ p_result.returned) =>
        /\ http_response.status_code = 200
        /\ RequiredBodyKeys \subseteq DOMAIN http_response.body

\* What the code answers: 200 with the full body on success, and 200 with
\* only status, branch_name, error, timing and correlation_id on failure.
C20_FailureBodyHasErrorOnly ==
    (http_response.sent /\ p_result.returned) =>
        /\ http_response.status_code = 200
        /\ http_response.body.status = p_result.status
        /\ DOMAIN http_response.body =
              IF p_result.status = "success"
              THEN RequiredBodyKeys \cup {"correlation_id"}
              ELSE {"status", "branch_name", "error", "timing", "correlation_id"}

\* A failed attempt was answered with 200 and a body without message.
C20_Witness ==
    /\ http_response.sent
    /\ http_response.status_code = 200
    /\ http_response.body.status = "error"
    /\ "message" \notin DOMAIN http_response.body
    /\ PAnswered("connect", "error")

---------------------------------------------------------------------------
\* Properties of the HTTP handler of the deployment function
\* (SpecDeployEndpoint)

DeployResultIs(success) ==
    /\ response.returned
    /\ response.success = success

\* C21: the deploy endpoint answers 200 exactly when the workflow result has
\* success = true, 500 when the result has success = false, 400 when the body
\* is missing or the request fails validation, and never 400 for a fault that
\* is not a validation error of the request.
C21_StatusFollowsResultAndValidation ==
    y_http.sent =>
        /\ (y_http.status_code = 200) <=> DeployResultIs(TRUE)
        /\ DeployResultIs(FALSE) => y_http.status_code = 500
        /\ y_request # "valid" => y_http.status_code = 400
        /\ y_http.status_code = 400 => y_request # "valid"

\* What the handler does: the status code follows the workflow result when
\* there is one, and otherwise the class of the exception: 400 for a missing
\* body and for every ValueError (a body that is not JSON, a rejected field,
\* a ValueError of the service constructor), 500 for every other exception
\* (the TypeError of a body that is not an object included).
C21_StatusFollowsResultOrExceptionClass ==
    y_http.sent =>
        /\ (y_http.status_code = 200) <=> DeployResultIs(TRUE)
        /\ DeployResultIs(FALSE) => y_http.status_code = 500
        /\ y_http.status_code \in {200, 400, 500}
        /\ response.returned <=> y_http.cause = "result"
        /\ y_request \in {"invalid_json", "empty", "invalid_fields"} =>
              y_http.status_code = 400
        /\ y_request = "not_mapping" => y_http.status_code = 500
        /\ (y_http.status_code = 400 /\ y_request = "valid") =>
              y_http.cause = "service_init"

\* A body that is a non-empty JSON array was answered 500.
C21_Witness ==
    /\ y_http.sent
    /\ y_request = "not_mapping"
    /\ y_http.status_code = 500
    /\ y_calls = << >>

---------------------------------------------------------------------------
\* Properties of the HTTP handler of the deprovisioning function
\* (SpecDeprovisionEndpoint)

\* The orchestrator ran on the request: it entered its first step.
OrchestratorRan == steps # << >>

\* C22: for every validated request on which the orchestrator runs, the
\* endpoint answers 200 with the orchestrator's result (status, branch_name,
\* operations, timing, message, and errors when any were recorded), also when
\* the result's status is "error".
C22_OrchestratorResultIsAnswered200 ==
    (d_http.sent /\ OrchestratorRan) =>
        /\ d_request = "valid"
        /\ d_http.status_code = 200
        /\ d_http.body = result
        /\ result.status = OverallStatus(errors)
        /\ result.branch_name = branch_name
        /\ result.operations = operations
        /\ result.timing = timing
        /\ {"status", "branch_name", "operations", "timing", "message"} \subseteq d_http.keys
        /\ ("errors" \in d_http.keys) <=> (errors # << >>)
        /\ result.errors = errors

\* A result with status "error" (a critical error was recorded) was answered
\* 200 with the errors in the body.
C22_Witness ==
    /\ d_http.sent
    /\ OrchestratorRan
    /\ d_http.status_code = 200
    /\ d_http.body.status = "error"
    /\ "errors" \in d_http.keys

---------------------------------------------------------------------------
\* Properties of the pure functions (SpecFunctions)

Called(name) == fn = name /\ ret.returned

\* The rule of a DNS label as the specification states it.
ValidLabel(v) ==
    /\ Len(v) >= 1
    /\ Len(v) <= 63
    /\ \A i \in 1..Len(v) : v[i] \in LowerLetters \cup Digits \cup {"-"}
    /\ v[1] # "-"
    /\ v[Len(v)] # "-"

\* C23: construction of a DeprovisionRequest succeeds if and only if
\* branch_name has 1 to 63 characters, each a lowercase letter, a digit or a
\* hyphen, and neither the first nor the last is a hyphen; an accepted name is
\* stored unchanged and every other string is rejected.
C23_AcceptedIffDnsLabel ==
    Called("DeprovisionRequest") =>
        /\ ~ret.raised <=> ValidLabel(arg)
        /\ ~ret.raised => ret.branch_name = arg

\* What the validator accepts: the DNS labels, and also a DNS label followed
\* by one line feed when the whole has at most 63 characters.  Whatever is
\* accepted is stored unchanged.
C23_AcceptedIffLabelOrLabelWithLineFeed ==
    Called("DeprovisionRequest") =>
        /\ ~ret.raised <=>
              \/ ValidLabel(arg)
              \/ /\ Len(arg) >= 2
                 /\ Len(arg) <= 63
                 /\ arg[Len(arg)] = "\n"
                 /\ ValidLabel(SubSeq(arg, 1, Len(arg) - 1))
        /\ ~ret.raised => ret.branch_name = arg

\* The name "a" followed by a line feed was accepted and stored with the
\* line feed.
C23_Witness ==
    /\ Called("DeprovisionRequest")
    /\ arg = <<"a", "\n">>
    /\ ~ret.raised
    /\ ret.branch_name = <<"a", "\n">>

\* str.isalnum() on the characters of the model: the letters and the digits.
IsAlnum(s) ==
    /\ s # << >>
    /\ \A i \in 1..Len(s) : s[i] \in LowerLetters \cup Digits \cup {"A"}

WithoutUnderscores(s) == SelectSeq(s, LAMBDA c : c # "_")

\* C24: for every branch name DeprovisionRequest accepts, the namespace
\* "feature-" + name has at most 63 characters and the database name (hyphens
\* replaced by underscores) is alphanumeric once underscores are removed.
C24_DerivedNamesAreValid ==
    Called("derive_names") =>
        /\ Len(ret.namespace) <= 63
        /\ IsAlnum(WithoutUnderscores(ret.database_name))

\* What holds of the derived names: the namespace is the name with eight
\* more characters, so it fits 63 exactly when the name has at most 55; the
\* database name is alphanumeric apart from underscores exactly when the name
\* has no line feed.
C24_DerivedNamesFollowTheBranchName ==
    Called("derive_names") =>
        /\ ~DeprovisionRequest(arg).raised
        /\ Len(ret.namespace) = Len(arg) + 8
        /\ Len(ret.namespace) <= 71
        /\ Len(ret.namespace) <= 63 <=> Len(arg) <= 55
        /\ Len(ret.database_name) = Len(arg)
        /\ IsAlnum(WithoutUnderscores(ret.database_name))
              <=> \A i \in 1..Len(arg) : arg[i] # "\n"

\* An accepted name of 63 characters gave a namespace of 71.
C24_Witness ==
    /\ Called("derive_names")
    /\ Len(arg) = 63
    /\ Len(ret.namespace) = 71

IsBlank(s) == \A i \in 1..Len(s) : s[i] \in Whitespace

\* s without its leading and trailing whitespace, for a string that is not
\* blank: from its first to its last character that is not whitespace.
Trimmed(s) ==
    LET solid == { i \in 1..Len(s) : s[i] \notin Whitespace }
        first == CHOOSE i \in solid : \A j \in solid : i <= j
        last  == CHOOSE i \in solid : \A j \in solid : j <= i
    IN  SubSeq(s, first, last)

\* C25: construction of a DeploymentRequest fails when branch_name or
\* commit_sha is empty or only whitespace; otherwise both are stored without
\* surrounding whitespace, namespace is "feature-" + the stored branch name
\* and image_tag_suffix is the stored branch name, a hyphen and the stored
\* commit sha.
C25_DeploymentRequestTrimsAndDerives ==
    Called("DeploymentRequest") =>
        IF IsBlank(arg[1]) \/ IsBlank(arg[2])
        THEN ret.raised
        ELSE /\ ~ret.raised
             /\ ret.branch_name = Trimmed(arg[1])
             /\ ret.commit_sha = Trimmed(arg[2])
             /\ ret.namespace = <<"f","e","a","t","u","r","e","-">> \o ret.branch_name
             /\ ret.image_tag_suffix = ret.branch_name \o <<"-">> \o ret.commit_sha

\* A branch name with a leading space and a commit sha with a trailing tab
\* were accepted and stored trimmed.
C25_Witness ==
    /\ Called("DeploymentRequest")
    /\ arg = << <<" ", "a">>, <<"a", "\t">> >>
    /\ ~ret.raised
    /\ ret.branch_name = <<"a">>
    /\ ret.image_tag_suffix = <<"a", "-", "a">>

\* C26: _generate_deployment_url returns "https://" + the namespace without
\* its "feature-" prefix + ".23.98.101.23.nip.io" when the namespace starts
\* with "feature-", and "https://" + the namespace + ".kubemooc.dev"
\* otherwise; for the namespace of a branch the host is the branch name
\* followed by the nip.io suffix.
C26_DeploymentUrlFollowsThePrefix ==
    Called("_generate_deployment_url") =>
        /\ StartsWith(arg, <<"f","e","a","t","u","r","e","-">>) =>
              ret.url = <<"h","t","t","p","s",":","/","/">> \o SubSeq(arg, 9, Len(arg)) \o <<".","2","3",".","9","8",".","1","0","1",".","2","3",".","n","i","p",".","i","o">>
        /\ ~StartsWith(arg, <<"f","e","a","t","u","r","e","-">>) =>
              ret.url = <<"h","t","t","p","s",":","/","/">> \o arg \o <<".","k","u","b","e","m","o","o","c",".","d","e","v">>
        /\ \A b \in Branches \cup {NamespaceFor(c) : c \in Branches} :
              arg = NamespaceFor(b) => ret.url = <<"h","t","t","p","s",":","/","/">> \o b \o <<".","2","3",".","9","8",".","1","0","1",".","2","3",".","n","i","p",".","i","o">>

\* A namespace that only resembles the prefix got the fallback domain.
C26_Witness ==
    /\ Called("_generate_deployment_url")
    /\ arg = <<"F","e","a","t","u","r","e","-","a">>
    /\ ret.url = <<"h","t","t","p","s",":","/","/">> \o <<"F","e","a","t","u","r","e","-","a">> \o <<".","k","u","b","e","m","o","o","c",".","d","e","v">>

\* s.endswith(pat)
EndsWith(s, pat) ==
    Len(s) >= Len(pat) /\ SubSeq(s, Len(s) - Len(pat) + 1, Len(s)) = pat

HasWordAtEnd(line) ==
    \/ EndsWith(line, <<" ","c","r","e","a","t","e","d">>)
    \/ EndsWith(line, <<" ","c","o","n","f","i","g","u","r","e","d">>)
    \/ EndsWith(line, <<" ","u","n","c","h","a","n","g","e","d">>)

HasWordSomewhere(line) ==
    \/ Contains(line, <<" ","c","r","e","a","t","e","d">>)
    \/ Contains(line, <<" ","c","o","n","f","i","g","u","r","e","d">>)
    \/ Contains(line, <<" ","u","n","c","h","a","n","g","e","d">>)

FirstTokens(lines) == [i \in DOMAIN lines |-> FirstToken(lines[i])]

\* C27: deployed_resources holds, in output order, the first
\* whitespace-delimited token of exactly those lines of the apply output that
\* end in " created", " configured" or " unchanged", and nothing for any
\* other line.
C27_ResourcesAreTheLinesEndingInAWord ==
    Called("parse_apply_output") =>
        ret.deployed_resources =
            FirstTokens(SelectSeq(Split(Strip(arg), "\n"), HasWordAtEnd))

\* What the parser does: it keeps the first token of every line that is not
\* blank and holds one of the three words, with the space before it,
\* anywhere in the line.
C27_ResourcesAreTheLinesHoldingAWord ==
    Called("parse_apply_output") =>
        ret.deployed_resources =
            FirstTokens(SelectSeq(Split(Strip(arg), "\n"),
                                  LAMBDA l : ~IsBlank(l) /\ HasWordSomewhere(l)))

\* A line with a remark after the word was taken for a resource line.
C27_Witness ==
    /\ Called("parse_apply_output")
    /\ arg = <<"a","/","b">> \o <<" ","c","r","e","a","t","e","d">> \o <<" ","(","x",")">>
    /\ ret.deployed_resources = << <<"a","/","b">> >>

---------------------------------------------------------------------------
\* Properties of the kustomization rewrite (SpecKustomization)

\* The pieces of s between the occurrences of pat, found from left to right.
RECURSIVE PiecesBetween(_, _)
PiecesBetween(s, pat) ==
    LET starts == { i \in 1..(Len(s) - Len(pat) + 1) : SubSeq(s, i, i + Len(pat) - 1) = pat }
    IN  IF starts = {} THEN <<s>>
        ELSE LET k == CHOOSE i \in starts : \A j \in starts : i <= j
             IN  <<SubSeq(s, 1, k - 1)>>
                    \o PiecesBetween(SubSeq(s, k + Len(pat), Len(s)), pat)

RECURSIVE JoinWith(_, _)
JoinWith(pieces, sep) ==
    IF Len(pieces) = 1 THEN pieces[1]
    ELSE pieces[1] \o sep \o JoinWith(Tail(pieces), sep)

\* The text with every occurrence of old substituted by new.
Substituted(s, old, new) == JoinWith(PiecesBetween(s, old), new)

\* The four substitutions of the claim, in its order.
ExpectedRewrite(text, branch, commit) ==
    LET hyphensToUnderscores == [i \in 1..Len(branch) |-> IF branch[i] = "-" THEN "_" ELSE branch[i]]
        s1 == Substituted(text, <<"n","a","m","e","s","p","a","c","e",":"," ","f","e","a","t","u","r","e","-","B","R","A","N","C","H","_","N","A","M","E">>, <<"n","a","m","e","s","p","a","c","e",":"," ">> \o <<"f","e","a","t","u","r","e","-">> \o branch)
        s2 == Substituted(s1, <<"B","R","A","N","C","H","_","N","A","M","E",".","2","3",".","9","8",".","1","0","1",".","2","3",".","n","i","p",".","i","o">>, branch \o <<".","2","3",".","9","8",".","1","0","1",".","2","3",".","n","i","p",".","i","o">>)
        s3 == Substituted(s2, <<"B","R","A","N","C","H","_","N","A","M","E","_","D","B">>, hyphensToUnderscores)
        s4 == Substituted(s3, <<"n","e","w","T","a","g",":"," ","l","a","t","e","s","t">>, <<"n","e","w","T","a","g",":"," ">> \o branch \o <<"-">> \o commit)
    IN  s4

RewriteDone == DeployAnswered("rewrite_kustomization", "ok")

\* C28: when the overlay's kustomization file exists, the rewritten file is
\* the original text with the four substitutions applied in order (namespace,
\* hostname, database name with hyphens replaced by underscores, image tag)
\* and nothing else changed; the rewrite is completed before the overlay is
\* rendered and applied.
C28_KustomizationRewrittenBeforeApply ==
    /\ Called("rewrite_kustomization") =>
          ret.text = ExpectedRewrite(arg.text, arg.branch_name, arg.commit_sha)
    /\ kustomization.exists =>
          kustomization.text = IF RewriteDone
                               THEN ExpectedRewrite(OverlayTemplate, branch_name, commit_sha)
                               ELSE OverlayTemplate
    /\ \A i \in DOMAIN y_calls :
          (kustomization.exists /\ y_calls[i].call \in {"kustomize_build", "kubectl_apply"}) =>
              \E j \in 1..(i - 1) : y_calls[j] = Call("rewrite_kustomization", "ok")

\* The overlay of branch ex-c3 was rewritten (database ex_c3, tag
\* ex-c3-abc123) and then rendered and applied.
C28_Witness ==
    /\ kustomization.exists
    /\ DeployAnswered("kubectl_apply", "ok")
    /\ kustomization.text = <<"e","x","_","c","3","\n","n","e","w","T","a","g",":"," ","e","x","-","c","3","-","a","b","c","1","2","3","\n">>

---------------------------------------------------------------------------
\* Properties of requests served by one process (SpecRequests)

\* The configurations held by the clients request r has built.
ConfigurationsOf(r) ==
    {c_client[r].api, c_client[r].apps, c_client[r].core, c_client[r].batch} \ {0}

\* C29: two requests served by the same process share no mutable state: the
\* Kubernetes client configuration a request's clients work with is the one
\* that request installed, and its manifest directory is its own.
C29_RequestsShareNoState ==
    /\ \A r \in Requests : ConfigurationsOf(r) \subseteq {r}
    /\ \A r, o \in Requests :
          (r # o /\ c_kubeconfig[r].manifests # 0) =>
              c_kubeconfig[r].manifests # c_kubeconfig[o].manifests

\* C29, what the requests do keep apart: the manifest directories are
\* distinct, a deployment coroutine's clients hold its own configuration,
\* and a configuration held by a client is one its owner has installed.
C29_DirectoriesAreLocalAndCoroutinesSerial ==
    /\ \A r, o \in Requests :
          (r # o /\ c_kubeconfig[r].manifests # 0) =>
              c_kubeconfig[r].manifests # c_kubeconfig[o].manifests
    /\ entry = "deployment-function" =>
          \A r \in Requests : ConfigurationsOf(r) \subseteq {r}
    /\ \A r \in Requests : \A o \in ConfigurationsOf(r) :
          c_pc[o] \notin {"start", "write", "load", "configure"}

\* Request 1 read its namespace with its own configuration and then listed
\* the CronJobs with the configuration request 2 had installed meanwhile.
C29_Witness ==
    /\ entry = "deprovisioning-function"
    /\ c_client[1].core = 1
    /\ c_client[1].batch = 2

---------------------------------------------------------------------------
\* Properties of the timing map (SpecDeprovision)

TimingKeys ==
    {"namespace_duration_seconds", "credentials_duration_seconds",
     "database_duration_seconds", "total_duration_seconds"}

\* The timing entry of a step: 0 when the step raised, its duration otherwise.
TimingOf(stepRet) == IF stepRet.raised THEN "zero" ELSE "measured"

\* C30: every result returned by deprovision_environment carries a timing
\* map with an entry for each of the three steps and for the total duration,
\* whatever the outcome of each step, including when a step raised.
C30_TimingHasEveryStepAndTotal ==
    Finished =>
        /\ DOMAIN result.timing = TimingKeys
        /\ result.timing["namespace_duration_seconds"] = TimingOf(nsRet)
        /\ result.timing["credentials_duration_seconds"] = TimingOf(credRet)
        /\ result.timing["database_duration_seconds"] = TimingOf(dbRet)
        /\ result.timing["total_duration_seconds"] = "measured"

\* A run returned although the credentials step and the database step raised.
C30_Witness ==
    /\ Finished
    /\ credRet.raised
    /\ dbRet.raised
    /\ ~nsRet.raised
    /\ DOMAIN result.timing = TimingKeys

---------------------------------------------------------------------------
\* Properties of workflows running side by side or in a row (SpecWorkflows)

BothReturned == \A w \in Workflows : w_pc[w] = "done"

NoOtherFailure == \A w \in Workflows : ~w_local[w].faults

\* What deprovisioning of branch b deletes.
DeprovisionTargets(b) ==
    [ databases   |-> {SanitizedDbName(b)},
      credentials |-> {DeprovisionedCredential("database_credential", b),
                       DeprovisionedCredential("keyvault_credential", b)},
      namespaces  |-> {NamespaceFor(b)} ]

\* C31: two deprovisioning workflows of one branch run side by side and
\* every remote failure either meets is the other having removed the resource
\* already: both return status "success".
C31_ConcurrentDeprovisionBothSucceed ==
    (entry = "concurrent_deprovision" /\ BothReturned /\ NoOtherFailure) =>
        \A w \in Workflows : w_result[w].status = "success"

\* C31, what does hold in that case: everything the workflows target is gone,
\* both credential flags are true, and a workflow returns "error" exactly when
\* its delete or its DROP met a resource the other had removed after this
\* workflow's existence check.
C31_ErrorExactlyWhenTheOtherWasFaster ==
    (entry = "concurrent_deprovision" /\ BothReturned /\ NoOtherFailure) =>
        /\ w_world.databases \cap DeprovisionTargets(branch_name).databases = {}
        /\ w_world.credentials \cap DeprovisionTargets(branch_name).credentials = {}
        /\ w_world.namespaces \cap DeprovisionTargets(branch_name).namespaces = {}
        /\ \A w \in Workflows :
              /\ w_local[w].flags.database_credential
              /\ w_local[w].flags.keyvault_credential
              /\ w_result[w].status = "error" <=>
                    ~(w_local[w].flags.namespace /\ w_local[w].flags.database)
              /\ Len(w_local[w].errors) =
                    Cardinality({f \in {"namespace", "database"} : ~w_local[w].flags[f]})
        /\ \A f \in {"namespace", "database"} : \E w \in Workflows : w_local[w].flags[f]

\* Workflow 1 found the database, workflow 2 dropped it first, and workflow 1
\* returned "error" while workflow 2 returned "success".
C31_Witness ==
    /\ entry = "concurrent_deprovision"
    /\ BothReturned
    /\ NoOtherFailure
    /\ w_result[1].status = "error"
    /\ w_result[2].status = "success"
    /\ w_local[1].flags.namespace
    /\ ~w_local[1].flags.database

\* What provisioning of branch b creates.
ProvisionTargets(b) ==
    [ databases   |-> {SanitizedDbName(b)},
      credentials |-> {ProvisionedCredential(b)},
      namespaces  |-> {b} ]

\* C32: two provisioning workflows of one branch run side by side against
\* the same server and cluster: both return status "success", a resource the
\* other created between this workflow's check and its create call counting
\* as already existing.
C32_ConcurrentProvisionBothSucceed ==
    (entry = "concurrent_provision" /\ BothReturned /\ NoOtherFailure) =>
        \A w \in Workflows : w_result[w].status = "success"

\* C32, what does hold in that case: the database, the credential and the
\* namespace exist, the database and credential steps succeeded in both
\* workflows, at most one workflow returns "error", and it does so exactly
\* when its create_namespace call met the namespace the other had created.
C32_ErrorExactlyWhenTheNamespaceAppeared ==
    (entry = "concurrent_provision" /\ BothReturned /\ NoOtherFailure) =>
        /\ ProvisionTargets(branch_name).databases \subseteq w_world.databases
        /\ ProvisionTargets(branch_name).credentials \subseteq w_world.credentials
        /\ ProvisionTargets(branch_name).namespaces \subseteq w_world.namespaces
        /\ \A w \in Workflows :
              /\ w_local[w].flags.database
              /\ w_local[w].flags.credential
              /\ w_result[w].status = "error" <=> ~w_local[w].flags.namespace
        /\ \E w \in Workflows : w_result[w].status = "success"

\* Both workflows saw no namespace, workflow 2 created it, and workflow 1's
\* create call failed.
C32_Witness ==
    /\ entry = "concurrent_provision"
    /\ BothReturned
    /\ NoOtherFailure
    /\ w_result[1].status = "error"
    /\ w_result[2].status = "success"

---------------------------------------------------------------------------
\* Properties of the result's status, flags and errors (SpecDeprovision)

\* C33: in every result of deprovision_environment the status is "success"
\* if and only if operations.namespace_deleted and operations.database_deleted
\* are both true; the two credential flags never influence the status; and the
\* errors key is present if and only if at least one error was recorded.
C33_StatusFollowsNamespaceAndDatabaseFlags ==
    Finished =>
        /\ result.status = "success" <=>
              (result.operations.namespace_deleted /\ result.operations.database_deleted)
        /\ result.status \in {"success", "error"}
        /\ result.has_errors <=> (errors # << >>)
        /\ result.has_errors => result.errors = errors

\* A run returned "success" with both credential flags false and a warning
\* in its errors.
C33_Witness ==
    /\ Finished
    /\ result.status = "success"
    /\ ~result.operations.credentials_deleted.database_credential
    /\ ~result.operations.credentials_deleted.keyvault_credential
    /\ result.has_errors

\* The warnings among the errors of the result.
Warnings == SelectSeq(result.errors, LAMBDA e : e.severity = "warning")

IdentityClientObtained == \E i \in DOMAIN calls : calls[i] = Call("get_identity_client", "ok")

CredentialDeleteAttempted ==
    \E i \in DOMAIN calls :
        calls[i].call \in {"delete_database_credential", "delete_keyvault_credential"}

\* C34: in every result of deprovision_environment the number of warnings
\* matches the credential flags: with the identity client obtained there is
\* exactly one warning per flag that is false and none for a flag that is
\* true; when obtaining the identity client fails both flags are false, no
\* credential delete is attempted and exactly one warning is recorded.
C34_WarningsMatchCredentialFlags ==
    Finished =>
        LET flags == result.operations.credentials_deleted
            warnings == Warnings
        IN  IF IdentityClientObtained
            THEN /\ Len(warnings) =
                       Cardinality({which \in {"database_credential", "keyvault_credential"} :
                                       ~flags[which]})
                 /\ \A which \in {"database_credential", "keyvault_credential"} :
                       flags[which] <=>
                          ~\E i \in DOMAIN warnings :
                               warnings[i].operation = which \o "_deletion"
            ELSE /\ ~flags.database_credential
                 /\ ~flags.keyvault_credential
                 /\ ~CredentialDeleteAttempted
                 /\ Len(warnings) = 1
                 /\ warnings[1].operation = "credentials_deletion"

\* A run returned after the database credential's delete failed and the
\* keyvault credential's succeeded: one warning.
C34_Witness ==
    /\ Finished
    /\ IdentityClientObtained
    /\ ~result.operations.credentials_deleted.database_credential
    /\ result.operations.credentials_deleted.keyvault_credential
    /\ Len(Warnings) = 1

---------------------------------------------------------------------------
\* Properties of the namespace a request targets (SpecDeprovisionTarget)

\* C35: for every branch name DeprovisionRequest accepts, the namespace
\* deprovision_environment targets ("feature-" + branch name) is not in the
\* protected set, so the workflow never triggers the protected-namespace
\* rejection and no request deletes a protected namespace.
C35_WorkflowNeverTargetsProtected ==
    /\ Called("derive_names") => ret.namespace \notin PROTECTED_NAMESPACES
    /\ entry = "deprovision_environment" =>
          /\ namespace_name \notin PROTECTED_NAMESPACES
          /\ nsRet.returned => (nsRet.raised => nsRet.exc # "ValueError")
    /\ namespace_name \in PROTECTED_NAMESPACES => nsExists

\* The workflow for branch "default" deleted the namespace feature-default.
C35_Witness ==
    /\ Finished
    /\ branch_name = <<"d","e","f","a","u","l","t">>
    /\ namespace_name = <<"f","e","a","t","u","r","e","-","d","e","f","a","u","l","t">>
    /\ result.operations.namespace_deleted
    /\ ~nsExists
    /\ initial.ns

---------------------------------------------------------------------------
\* Properties of the names the workflows agree on (SpecWorkflows)

\* The branch name with every hyphen replaced by an underscore.
HyphensToUnderscores(b) == [i \in 1..Len(b) |-> IF b[i] = "-" THEN "_" ELSE b[i]]

\* C36: for every branch name the three workflows agree on the database
\* name: the database provisioning creates, the name deployment writes into
\* the overlay and the database deprovisioning checks and drops are all the
\* branch name with every hyphen replaced by an underscore.
C36_WorkflowsAgreeOnDatabaseName ==
    /\ \A w \in DOMAIN w_local :
          w_local[w].database \in {<< >>, HyphensToUnderscores(branch_name)}
    /\ entry \in Arrangements =>
          /\ w_world.overlay \in {<< >>, HyphensToUnderscores(branch_name)}
          /\ w_world.databases \subseteq {HyphensToUnderscores(branch_name)}

\* For branch ex-c3 provisioning created ex_c3, deployment wrote ex_c3 into
\* the overlay and deprovisioning dropped ex_c3.
C36_Witness ==
    /\ entry = "provision_then_deprovision"
    /\ BothReturned
    /\ branch_name = <<"e","x","-","c","3">>
    /\ w_local[1].database = <<"e","x","_","c","3">>
    /\ w_local[1].flags.database
    /\ w_world.overlay = <<"e","x","_","c","3">>
    /\ w_local[2].database = <<"e","x","_","c","3">>
    /\ w_local[2].flags.database
    /\ w_world.databases = {}


ProvisionedThenDeprovisioned ==
    /\ entry = "provision_then_deprovision"
    /\ BothReturned
    /\ w_result[1].status = "success"
    /\ w_result[2].status = "success"

\* The resources workflow w brought into existence that still exist.
RemainingOf(w) ==
    {r \in w_local[w].created :
        CASE r = "database" -> SanitizedDbName(branch_name) \in w_world.databases
          [] r = "credential" -> ProvisionedCredential(branch_name) \in w_world.credentials
          [] r = "namespace" -> branch_name \in w_world.namespaces}

\* C37: after provision_environment succeeded for a branch and
\* deprovision_environment then succeeded for the same branch, none of the
\* resources provisioning created remains: the database, the federated
\* credential and the namespace it created have all been deleted.
C37_DeprovisionRemovesWhatProvisionCreated ==
    ProvisionedThenDeprovisioned => RemainingOf(1) = {}

\* C37, what does hold: of the resources provisioning created, the database
\* is gone, while the credential cred-{branch} and the namespace {branch}
\* are exactly as provisioning left them; what deprovisioning targets
\* (feature-{branch} and the two workload-identity credentials) is gone.
C37_OnlyTheDatabaseIsRemoved ==
    ProvisionedThenDeprovisioned =>
        /\ RemainingOf(1) = w_local[1].created \ {"database"}
        /\ ProvisionedCredential(branch_name) \in w_world.credentials
        /\ branch_name \in w_world.namespaces
        /\ w_world.databases = {}
        /\ w_world.credentials \cap DeprovisionTargets(branch_name).credentials = {}
        /\ NamespaceFor(branch_name) \notin w_world.namespaces

\* Provisioning created all three resources, both workflows returned
\* "success", and the credential and the namespace are still there.
C37_Witness ==
    /\ ProvisionedThenDeprovisioned
    /\ w_local[1].created = {"database", "credential", "namespace"}
    /\ RemainingOf(1) = {"credential", "namespace"}

---------------------------------------------------------------------------
\* Properties of a failed provisioning run (SpecProvision)

CreatedFlags == {"database_created", "credential_created", "namespace_created"}

\* C38: provision_environment performs no rollback: when a later step fails,
\* what the earlier steps of the run created is left in place (the database
\* after a credential failure; the database and the credential after a
\* namespace failure), and the error result does not report which of them
\* were created.
C38_FailedRunLeavesResourcesUnreported ==
    /\ database_created => p_dbExists
    /\ credential_created => p_credExists
    /\ namespace_created => p_nsExists
    /\ p_initial.database => p_dbExists
    /\ p_initial.credential => p_credExists
    /\ p_initial.namespace => p_nsExists
    /\ (p_result.returned /\ p_result.status = "error") =>
          /\ DOMAIN p_result \cap CreatedFlags = {}
          /\ \A i \in DOMAIN p_calls :
                p_calls[i].call \in {"create_or_update", "create_namespace"} =>
                    database_created

\* A run that created the database and the credential failed at the
\* namespace creation: both are still there and the result names neither.
C38_Witness ==
    /\ p_result.returned
    /\ p_result.status = "error"
    /\ ~p_initial.database
    /\ ~p_initial.credential
    /\ database_created
    /\ credential_created
    /\ p_dbExists
    /\ p_credExists
    /\ PAnswered("create_namespace", "error")

---------------------------------------------------------------------------
\* Properties of a "success" answer of the deprovision endpoint
\* (SpecDeprovisionEndpoint)

AnsweredSuccess == d_http.sent /\ d_http.body.status = "success"

\* The step returned without raising.
Completed(stepRet) == stepRet.returned /\ ~stepRet.raised

\* C39: the deprovision endpoint answers with status "success" only if the
\* deprovisioning workflow actually ran and its namespace-deletion and
\* database-deletion steps completed without raising; no path of the handler
\* reports success without those steps having been executed.
C39_SuccessOnlyAfterTheWorkflowRan ==
    AnsweredSuccess =>
        /\ OrchestratorRan
        /\ Completed(nsRet)
        /\ Completed(dbRet)

\* C39, what the handler does: a "success" answer is either the workflow's
\* result after the namespace and database steps completed, or the mock
\* answer given when the service constructor fails with an authentication
\* error, in which case no step ran and nothing was called or deleted.
C39_SuccessIsTheResultOrTheMockAnswer ==
    AnsweredSuccess =>
        /\ d_http.status_code = 200
        /\ d_http.cause \in {"result", "local_testing"}
        /\ d_http.cause = "result" =>
              /\ OrchestratorRan
              /\ Completed(nsRet)
              /\ Completed(dbRet)
              /\ d_http.body = result
        /\ d_http.cause = "local_testing" =>
              /\ ~OrchestratorRan
              /\ calls = << >>
              /\ nsRet = NoRet
              /\ dbRet = NoRet
              /\ World = initial
              /\ "local_testing" \in d_http.keys

\* The service constructor failed with an authentication error and the
\* endpoint answered 200 "success" for a branch whose namespace and database
\* still exist.
C39_Witness ==
    /\ AnsweredSuccess
    /\ d_http.cause = "local_testing"
    /\ ~OrchestratorRan
    /\ nsExists
    /\ dbExists


---------------------------------------------------------------------------
\* The administrative connection of delete_database and create_database

\* delete_database has returned or raised.
DeleteDatabaseLeft == dbRet.returned

\* create_database has returned or raised after asking for a connection.
CreateDatabaseLeft == PIssued("CREATE DATABASE") \/ PAnswered("connect", "error")

\* C40 (as stated): once delete_database or create_database has been left, by
\* a return or by an exception of the existence query, the termination query,
\* the DROP or the CREATE, its administrative connection is closed.
C40_ConnectionClosedOnEveryExit ==
    /\ DeleteDatabaseLeft => ~connOpen
    /\ CreateDatabaseLeft => ~p_conn

\* C40 (what the code does): the connection is closed on the normal path only.
\* delete_database leaves it open exactly when it raised after connecting;
\* create_database leaves it open exactly when it connected and CREATE DATABASE
\* did not succeed, the tolerated "already exists" answer included.
C40_ConnectionClosedOnTheNormalPathOnly ==
    /\ DeleteDatabaseLeft =>
          (connOpen <=> (Answered("connect", "ok") /\ dbRet.raised))
    /\ CreateDatabaseLeft =>
          (p_conn <=> (PAnswered("connect", "ok") /\ ~PAnswered("CREATE DATABASE", "ok")))

\* delete_database raised out of DROP DATABASE and its connection is still open.
C40_Witness ==
    /\ DeleteDatabaseLeft
    /\ Answered("drop_database", "error")
    /\ dbRet.raised
    /\ connOpen

====
